---- MODULE Spec2Model ----
(***************************************************************************)
(* Conversation state machine of the Nobl9 project bot.                    *)
(*                                                                         *)
(* Go strings are modelled as sequences of one-character strings, so that  *)
(* strings.TrimSpace, strings.ToLower, strings.Fields, strings.EqualFold   *)
(* and strings.Contains are computed the way the library computes them.    *)
(* An error value is the chain obtained by repeated Unwrap, outermost      *)
(* first; each element is a BotError type or "plain" for an error that is  *)
(* not a BotError.  The empty chain is the nil error.                      *)
(***************************************************************************)
EXTENDS Integers, Sequences, FiniteSets, TLC

VARIABLES state, last

vars == <<state, last>>

(***************************************************************************)
(* Bounds of the model.                                                    *)
(***************************************************************************)
\* Cut-off of one retry loop: a loop that has made this many collaborator
\* calls without leaving is reported as cut (no handler result).
MaxCalls == 6

(***************************************************************************)
(* strings                                                                 *)
(***************************************************************************)
UpperLetters == <<"A","B","C","D","E","F","G","H","I","J","K","L","M",
                  "N","O","P","Q","R","S","T","U","V","W","X","Y","Z">>

LowerLetters == <<"a","b","c","d","e","f","g","h","i","j","k","l","m",
                  "n","o","p","q","r","s","t","u","v","w","x","y","z">>

LowerChar(c) ==
    IF \E i \in 1..26 : UpperLetters[i] = c
    THEN LowerLetters[CHOOSE i \in 1..26 : UpperLetters[i] = c]
    ELSE c

ToLower(s) == [i \in 1..Len(s) |-> LowerChar(s[i])]

\* unicode.IsSpace on the characters the model uses.
IsSpace(c) == c \in {" ", "\t", "\n", "\r", "\f"}

RECURSIVE TrimLeft(_)
TrimLeft(s) ==
    IF s # <<>> /\ IsSpace(Head(s)) THEN TrimLeft(Tail(s)) ELSE s

RECURSIVE TrimRight(_)
TrimRight(s) ==
    IF s # <<>> /\ IsSpace(s[Len(s)])
    THEN TrimRight(SubSeq(s, 1, Len(s) - 1))
    ELSE s

TrimSpace(s) == TrimRight(TrimLeft(s))

EqualFold(a, b) == ToLower(a) = ToLower(b)

HasPrefix(s, p) == Len(s) >= Len(p) /\ SubSeq(s, 1, Len(p)) = p

TrimPrefix(s, p) == IF HasPrefix(s, p) THEN SubSeq(s, Len(p) + 1, Len(s)) ELSE s

Contains(s, sub) ==
    \E i \in 1..(Len(s) + 1) :
        /\ i + Len(sub) - 1 <= Len(s)
        /\ SubSeq(s, i, i + Len(sub) - 1) = sub

\* strings.Fields: the maximal runs of non-space characters, in order.
RECURSIVE FieldsFrom(_, _, _)
FieldsFrom(s, cur, acc) ==
    IF s = <<>>
    THEN IF cur = <<>> THEN acc ELSE Append(acc, cur)
    ELSE IF IsSpace(Head(s))
         THEN FieldsFrom(Tail(s), <<>>, IF cur = <<>> THEN acc ELSE Append(acc, cur))
         ELSE FieldsFrom(Tail(s), Append(cur, Head(s)), acc)

Fields(s) == FieldsFrom(s, <<>>, <<>>)

(***************************************************************************)
(* String literals used by the program.                                    *)
(***************************************************************************)
Empty == <<>>

sHelp == <<"h","e","l","p">>
sStart == <<"s","t","a","r","t">>
sSlash == <<"/">>
sCreateProject == <<"c","r","e","a","t","e","-","p","r","o","j","e","c","t">>
sCreate == <<"c","r","e","a","t","e">>
sNew == <<"n","e","w">>
sAssignRole == <<"a","s","s","i","g","n","-","r","o","l","e">>
sAssign == <<"a","s","s","i","g","n">>
sRole == <<"r","o","l","e">>
sListProjects == <<"l","i","s","t","-","p","r","o","j","e","c","t","s">>
sList == <<"l","i","s","t">>
sLs == <<"l","s">>
sH == <<"h">>
sQuestion == <<"?">>
sProject == <<"p","r","o","j","e","c","t">>
sProjects == <<"p","r","o","j","e","c","t","s">>
sUser == <<"u","s","e","r">>
sShow == <<"s","h","o","w">>
sAdmin == <<"a","d","m","i","n">>
sMember == <<"m","e","m","b","e","r">>
sViewer == <<"v","i","e","w","e","r">>
sY == <<"y">>
sYes == <<"y","e","s">>
sN == <<"n">>
sNo == <<"n","o">>

(***************************************************************************)
(* errors                                                                  *)
(***************************************************************************)
NilErr == <<>>

ErrorTypeValidation == "validation_error"
ErrorTypeNotFound == "not_found_error"
ErrorTypeConflict == "conflict_error"
ErrorTypeRateLimit == "rate_limit_error"
ErrorTypeInternal == "internal_error"
ErrorTypeTimeout == "timeout_error"

ErrorTypes == {ErrorTypeValidation, ErrorTypeNotFound, ErrorTypeConflict,
               ErrorTypeRateLimit, ErrorTypeInternal, ErrorTypeTimeout}

\* errors.As(err, &botErr): the first BotError of the chain, "" when none.
RECURSIVE AsBotError(_)
AsBotError(err) ==
    IF err = <<>> THEN ""
    ELSE IF Head(err) \in ErrorTypes THEN Head(err)
    ELSE AsBotError(Tail(err))

IsValidationError(err) == err # NilErr /\ AsBotError(err) = ErrorTypeValidation
IsNotFoundError(err) == err # NilErr /\ AsBotError(err) = ErrorTypeNotFound
IsConflictError(err) == err # NilErr /\ AsBotError(err) = ErrorTypeConflict
IsRateLimitError(err) == err # NilErr /\ AsBotError(err) = ErrorTypeRateLimit
\* IsInternalError that also looks at the errors a BotError wraps.
IsInternalError_AnyInChain(err) ==
    \E i \in 1..Len(err) : err[i] = ErrorTypeInternal

IsInternalError(err) == err # NilErr /\ AsBotError(err) = ErrorTypeInternal
IsTimeoutError(err) == err # NilErr /\ AsBotError(err) = ErrorTypeTimeout

NewValidationError(cause) == <<ErrorTypeValidation>> \o cause

(***************************************************************************)
(* recovery                                                                *)
(***************************************************************************)
StrategyRetry == "retry"
StrategyFallback == "fallback"
StrategyCancel == "cancel"

NewRecovery(strategy, maxAttempts, delay) ==
    [Strategy |-> strategy, MaxAttempts |-> maxAttempts, Delay |-> delay]

\* GetRecoveryForError that treats a timeout like a rate limit.
GetRecoveryForError_TimeoutAsRateLimit(err) ==
    CASE IsRateLimitError(err) \/ IsTimeoutError(err) -> NewRecovery(StrategyRetry, 3, 5)
      [] IsNotFoundError(err) -> NewRecovery(StrategyFallback, 1, 0)
      [] OTHER -> NewRecovery(StrategyCancel, 1, 0)

\* Delays are in seconds.
GetRecoveryForError(err) ==
    CASE IsRateLimitError(err) -> NewRecovery(StrategyRetry, 3, 5)
      [] IsTimeoutError(err) -> NewRecovery(StrategyRetry, 2, 2)
      [] IsNotFoundError(err) -> NewRecovery(StrategyFallback, 1, 0)
      [] IsConflictError(err) -> NewRecovery(StrategyCancel, 1, 0)
      [] IsValidationError(err) -> NewRecovery(StrategyCancel, 1, 0)
      [] OTHER -> NewRecovery(StrategyCancel, 1, 0)

\* ShouldRetry that allows one attempt too many.
ShouldRetry_Inclusive(err, attempts) ==
    LET recovery == GetRecoveryForError(err)
    IN  recovery.Strategy = StrategyRetry /\ attempts <= recovery.MaxAttempts

ShouldRetry(err, attempts) ==
    LET recovery == GetRecoveryForError(err)
    IN  recovery.Strategy = StrategyRetry /\ attempts < recovery.MaxAttempts

GetRetryDelay(err) == GetRecoveryForError(err).Delay

(***************************************************************************)
(* interactive: Prompt and Confirmation                                    *)
(***************************************************************************)
NilPrompt ==
    [type |-> "nil", Message |-> <<>>, Options |-> <<>>, Default |-> <<>>,
     DefaultYes |-> FALSE]

NewPrompt(message, options, defaultOption) ==
    [type |-> "Prompt", Message |-> message, Options |-> options,
     Default |-> defaultOption, DefaultYes |-> FALSE]

NewConfirmation(message, defaultYes) ==
    [type |-> "Confirmation", Message |-> message, Options |-> <<>>,
     Default |-> <<>>, DefaultYes |-> defaultYes]

\* Prompt.Format: the message, then the numbered options with the default
\* option marked.
PromptFormat(p) ==
    [kind |-> "prompt", body |-> p.Message, options |-> p.Options,
     marked |-> {i \in 1..Len(p.Options) : p.Options[i] = p.Default},
     suffix |-> ""]

ConfirmationFormat(c) ==
    [kind |-> "confirmation", body |-> c.Message, options |-> <<>>,
     marked |-> {},
     suffix |-> IF c.DefaultYes THEN "(Y/n) " ELSE "(y/N) "]

\* Prompt.Validate that uses the default only when it is one of the options.
PromptValidate_DefaultMustBeOption(p, response0) ==
    LET response == TrimSpace(response0)
        listed == Len(p.Options) = 0
                    \/ \E i \in 1..Len(p.Options) : p.Options[i] = p.Default
    IN  IF response = Empty /\ p.Default # Empty /\ listed
        THEN [value |-> p.Default, err |-> NilErr]
        ELSE IF Len(p.Options) > 0
             THEN IF \E i \in 1..Len(p.Options) : EqualFold(response, p.Options[i])
                  THEN [value |-> p.Options[CHOOSE i \in 1..Len(p.Options) :
                                     /\ EqualFold(response, p.Options[i])
                                     /\ \A j \in 1..(i - 1) :
                                            ~EqualFold(response, p.Options[j])],
                        err |-> NilErr]
                  ELSE [value |-> Empty, err |-> <<"invalid option: %s">>]
             ELSE [value |-> response, err |-> NilErr]

\* Prompt.Validate that returns the answer as it was typed.
PromptValidate_ReturnsAnswer(p, response0) ==
    LET response == TrimSpace(response0)
    IN  IF response = Empty /\ p.Default # Empty
        THEN [value |-> p.Default, err |-> NilErr]
        ELSE IF Len(p.Options) > 0
             THEN IF \E i \in 1..Len(p.Options) : EqualFold(response, p.Options[i])
                  THEN [value |-> response, err |-> NilErr]
                  ELSE [value |-> Empty, err |-> <<"invalid option: %s">>]
             ELSE [value |-> response, err |-> NilErr]

\* Prompt.Validate
PromptValidate(p, response0) ==
    LET response == TrimSpace(response0)
    IN  IF response = Empty /\ p.Default # Empty
        THEN [value |-> p.Default, err |-> NilErr]
        ELSE IF Len(p.Options) > 0
             THEN IF \E i \in 1..Len(p.Options) : EqualFold(response, p.Options[i])
                  THEN [value |-> p.Options[CHOOSE i \in 1..Len(p.Options) :
                                     /\ EqualFold(response, p.Options[i])
                                     /\ \A j \in 1..(i - 1) :
                                            ~EqualFold(response, p.Options[j])],
                        err |-> NilErr]
                  ELSE [value |-> Empty, err |-> <<"invalid option: %s">>]
             ELSE [value |-> response, err |-> NilErr]

\* Confirmation.Validate that falls back to the default for an unknown answer.
ConfirmationValidate_DefaultOnUnknown(c, response0) ==
    LET response == TrimSpace(ToLower(response0))
    IN  IF response \in {sY, sYes} THEN [value |-> TRUE, err |-> NilErr]
        ELSE IF response \in {sN, sNo} THEN [value |-> FALSE, err |-> NilErr]
        ELSE [value |-> c.DefaultYes, err |-> NilErr]

\* Confirmation.Validate without the lower-casing.
ConfirmationValidate_CaseSensitive(c, response0) ==
    LET response == TrimSpace(response0)
    IN  IF response = Empty
        THEN [value |-> c.DefaultYes, err |-> NilErr]
        ELSE IF response \in {sY, sYes} THEN [value |-> TRUE, err |-> NilErr]
        ELSE IF response \in {sN, sNo} THEN [value |-> FALSE, err |-> NilErr]
        ELSE [value |-> FALSE, err |-> <<"invalid response: %s">>]

\* Confirmation.Validate that takes every unknown answer for no.
ConfirmationValidate_UnknownIsNo(c, response0) ==
    LET response == TrimSpace(ToLower(response0))
    IN  IF response = Empty
        THEN [value |-> c.DefaultYes, err |-> NilErr]
        ELSE IF response \in {sY, sYes} THEN [value |-> TRUE, err |-> NilErr]
        ELSE [value |-> FALSE, err |-> NilErr]

\* Confirmation.Validate
ConfirmationValidate(c, response0) ==
    LET response == TrimSpace(ToLower(response0))
    IN  IF response = Empty
        THEN [value |-> c.DefaultYes, err |-> NilErr]
        ELSE IF response \in {sY, sYes} THEN [value |-> TRUE, err |-> NilErr]
        ELSE IF response \in {sN, sNo} THEN [value |-> FALSE, err |-> NilErr]
        ELSE [value |-> FALSE, err |-> <<"invalid response: %s">>]

(***************************************************************************)
(* command registry                                                        *)
(***************************************************************************)
\* The commands registered by NewBot / New, in registration order.
Commands ==
    << [Name |-> sHelp, Aliases |-> {sH, sQuestion}],
       [Name |-> sCreateProject, Aliases |-> {sCreate, sNew}],
       [Name |-> sAssignRole, Aliases |-> {sAssign, sRole}],
       [Name |-> sListProjects, Aliases |-> {sList, sLs}] >>

NoCommand == [Name |-> Empty, Aliases |-> {}]

\* CommandRegistry.Get: by name first, then by alias.
RegistryGet(name) ==
    IF \E i \in 1..Len(Commands) : Commands[i].Name = name
    THEN [cmd |-> Commands[CHOOSE i \in 1..Len(Commands) : Commands[i].Name = name],
          ok |-> TRUE]
    ELSE IF \E i \in 1..Len(Commands) : name \in Commands[i].Aliases
    THEN [cmd |-> Commands[CHOOSE i \in 1..Len(Commands) : name \in Commands[i].Aliases],
          ok |-> TRUE]
    ELSE [cmd |-> NoCommand, ok |-> FALSE]

(***************************************************************************)
(* responses                                                               *)
(***************************************************************************)
\* A textual response: a format string and its arguments.
Text(body) ==
    [kind |-> "text", body |-> body, options |-> <<>>, marked |-> {},
     suffix |-> ""]

NoResponse == Text(<<"">>)

(***************************************************************************)
(* ConversationState                                                       *)
(***************************************************************************)
StepIdle == ""
StepProjectSelection == "project_selection"
StepProjectName == "project_name"
StepProjectDescription == "project_description"
StepConfirmCreation == "confirm_creation"
StepRoleUser == "role_user"
StepRoleType == "role_type"
StepConfirmRole == "confirm_role"

RoleOptions == <<sAdmin, sMember, sViewer>>

\* The zero value of the struct, with the given fields of the literal set.
NewConversationState(createdAt, lastUpdated) ==
    [ProjectName |-> Empty, ProjectDescription |-> Empty, Owner |-> Empty,
     CreatedAt |-> createdAt, UserRoles |-> <<>>, LastUpdated |-> lastUpdated,
     Step |-> "", PendingPrompt |-> NilPrompt, CurrentStep |-> StepIdle,
     RoleUser |-> Empty, RoleType |-> Empty]

\* Reset that leaves the owner in place.
Reset_KeepsOwner(s) ==
    [s EXCEPT !.ProjectName = Empty,
              !.ProjectDescription = Empty,
              !.Step = "",
              !.PendingPrompt = NilPrompt,
              !.CurrentStep = StepIdle,
              !.RoleUser = Empty,
              !.RoleType = Empty]

\* Reset that also clears the time of the last update.
Reset_ClearsLastUpdated(s) ==
    [s EXCEPT !.ProjectName = Empty,
              !.ProjectDescription = Empty,
              !.Owner = Empty,
              !.LastUpdated = 0,
              !.Step = "",
              !.PendingPrompt = NilPrompt,
              !.CurrentStep = StepIdle,
              !.RoleUser = Empty,
              !.RoleType = Empty]

\* Reset that forgets to clear the pending prompt.
Reset_KeepsPrompt(s) ==
    [s EXCEPT !.ProjectName = Empty,
              !.ProjectDescription = Empty,
              !.Owner = Empty,
              !.Step = "",
              !.CurrentStep = StepIdle,
              !.RoleUser = Empty,
              !.RoleType = Empty]

Reset(s) ==
    [s EXCEPT !.ProjectName = Empty,
              !.ProjectDescription = Empty,
              !.Owner = Empty,
              !.Step = "",
              !.PendingPrompt = NilPrompt,
              !.CurrentStep = StepIdle,
              !.RoleUser = Empty,
              !.RoleType = Empty]

(***************************************************************************)
(* The external collaborator (nobl9.Client) and the retry loops            *)
(***************************************************************************)
\* Errors the collaborator can return: BotErrors of the two retried types
\* and of a fallback type, and an error that is no BotError (cancel).
CollabErrors ==
    { <<ErrorTypeRateLimit>>, <<ErrorTypeTimeout>>, <<ErrorTypeNotFound>>,
      <<"plain">> }

\* One call of the collaborator: success with one of the values okVals, or
\* an error.
CollabOutcomes(okVals) ==
    { [err |-> NilErr, val |-> v] : v \in okVals }
        \cup { [err |-> e, val |-> FALSE] : e \in CollabErrors }

\* The loop  attempts := 0; for { call; if err == nil {break};
\* if !ShouldRetry(err, attempts) {return err}; Sleep(GetRetryDelay(err));
\* attempts++ }  as the set of its possible runs.  A run is the sequence of
\* the outcomes of its calls; the last outcome decides the result.
RECURSIVE RetryLoopFrom(_, _, _)
RetryLoopFrom(okVals, attempts, run) ==
    IF Len(run) >= MaxCalls
    THEN { [calls |-> run, cut |-> TRUE] }
    ELSE UNION { IF o.err = NilErr \/ ~ShouldRetry(o.err, attempts)
                 THEN { [calls |-> Append(run, o), cut |-> FALSE] }
                 ELSE RetryLoopFrom(okVals, attempts + 1, Append(run, o))
                 : o \in CollabOutcomes(okVals) }

RetryLoop(okVals) == { r \in RetryLoopFrom(okVals, 0, <<>>) : ~r.cut }

\* What the handler sees of a run: the outcome of its last call.
RunSummary(run) == run.calls[Len(run.calls)]

\* The runs of the loops around ValidateProjectName and ValidateUser (which
\* return a boolean) and around CreateProject and AssignRoles.
ValidationRuns == { RunSummary(r) : r \in RetryLoop(BOOLEAN) }

OperationRuns == { RunSummary(r) : r \in RetryLoop({TRUE}) }

\* What a handler did with the collaborator: the operation it called (one or
\* more times, with the same arguments) and whether the last call succeeded;
\* val is the boolean a successful validation returned.
NoCalls == [op |-> "none", args |-> <<>>, ok |-> FALSE, val |-> FALSE]

CallsOf(op, args, run) ==
    [op |-> op, args |-> args, ok |-> run.err = NilErr, val |-> run.val]

\* AssignRoles that keys the assignment by the project instead of the user.
AssignRolesArgs_KeyedByProject(project, users) ==
    <<project, { <<project, <<sMember>>>> : i \in 1..Len(users) }>>

\* Bot.AssignRoles: every user is given the roles ["member"].
AssignRolesArgs(project, users) ==
    <<project, { <<users[i], <<sMember>>>> : i \in 1..Len(users) }>>

\* The result of a handler: the conversation state it leaves, the response
\* and error it returns and the collaborator calls it made.
Result(st, resp, err, calls) ==
    [st |-> st, resp |-> resp, err |-> err, calls |-> calls]

(***************************************************************************)
(* Bot.handlePromptResponse                                                *)
(***************************************************************************)
\* case "project_selection"
PromptProjectSelection(st, response) ==
    LET prompt == NewPrompt(<<"Please enter the user's email for project '%s':", response>>,
                            <<>>, Empty)
        st1 == [st EXCEPT !.ProjectName = response,
                          !.CurrentStep = StepRoleUser,
                          !.PendingPrompt = prompt]
    IN  { Result(st1, PromptFormat(prompt), NilErr, NoCalls) }

\* case "project_name" that stores the name before it knows it is available.
PromptProjectName_StoresRejected(st, response) ==
    { LET res == run
          calls == CallsOf("ValidateProjectName", <<response>>, run)
      IN  IF res.err # NilErr
          THEN Result(st, NoResponse, res.err, calls)
          ELSE IF ~res.val
          THEN LET prompt == NewPrompt(
                       <<"Project name is not available. Please choose another name:">>,
                       <<>>, Empty)
               IN  Result([st EXCEPT !.ProjectName = response,
                                     !.PendingPrompt = prompt],
                          PromptFormat(prompt), NilErr, calls)
          ELSE LET prompt == NewPrompt(
                       <<"Please provide a description for the project:">>,
                       <<>>, Empty)
               IN  Result([st EXCEPT !.ProjectName = response,
                                     !.CurrentStep = StepProjectDescription,
                                     !.PendingPrompt = prompt],
                          PromptFormat(prompt), NilErr, calls)
      : run \in ValidationRuns }

\* case "project_name"
PromptProjectName(st, response) ==
    { LET res == run
          calls == CallsOf("ValidateProjectName", <<response>>, run)
      IN  IF res.err # NilErr
          THEN Result(st, NoResponse, res.err, calls)
          ELSE IF ~res.val
          THEN LET prompt == NewPrompt(
                       <<"Project name is not available. Please choose another name:">>,
                       <<>>, Empty)
               IN  Result([st EXCEPT !.PendingPrompt = prompt],
                          PromptFormat(prompt), NilErr, calls)
          ELSE LET prompt == NewPrompt(
                       <<"Please provide a description for the project:">>,
                       <<>>, Empty)
               IN  Result([st EXCEPT !.ProjectName = response,
                                     !.CurrentStep = StepProjectDescription,
                                     !.PendingPrompt = prompt],
                          PromptFormat(prompt), NilErr, calls)
      : run \in ValidationRuns }

\* case "project_description" that does not store the description.
PromptProjectDescription_NotStored(st, response) ==
    LET confirm == NewConfirmation(
                       <<"Create project '%s' with description '%s'?",
                         st.ProjectName, response>>, TRUE)
        st1 == [st EXCEPT !.CurrentStep = StepConfirmCreation,
                          !.PendingPrompt = confirm]
    IN  { Result(st1, ConfirmationFormat(confirm), NilErr, NoCalls) }

\* case "project_description" that asks for the confirmation with a Prompt.
PromptProjectDescription_AsksWithPrompt(st, response) ==
    LET confirm == NewPrompt(
                       <<"Create project '%s' with description '%s'?",
                         st.ProjectName, response>>, <<sYes, sNo>>, sYes)
        st1 == [st EXCEPT !.ProjectDescription = response,
                          !.CurrentStep = StepConfirmCreation,
                          !.PendingPrompt = confirm]
    IN  { Result(st1, PromptFormat(confirm), NilErr, NoCalls) }

\* case "project_description"
PromptProjectDescription(st, response) ==
    LET confirm == NewConfirmation(
                       <<"Create project '%s' with description '%s'?",
                         st.ProjectName, response>>, TRUE)
        st1 == [st EXCEPT !.ProjectDescription = response,
                          !.CurrentStep = StepConfirmCreation,
                          !.PendingPrompt = confirm]
    IN  { Result(st1, ConfirmationFormat(confirm), NilErr, NoCalls) }

\* case "confirm_creation" that resets the conversation when CreateProject
\* fails for good.
PromptConfirmCreation_ResetOnFailure(st, response) ==
    IF st.PendingPrompt.type # "Confirmation"
    THEN { Result(st, NoResponse, <<"invalid prompt type: expected Confirmation">>, NoCalls) }
    ELSE LET v == ConfirmationValidate(st.PendingPrompt, response)
         IN  IF v.err # NilErr
             THEN { Result(st, NoResponse, v.err, NoCalls) }
             ELSE IF ~v.value
             THEN { Result(Reset(st), Text(<<"Project creation cancelled.">>), NilErr, NoCalls) }
             ELSE { LET res == run
                        calls == CallsOf("CreateProject",
                                         <<st.ProjectName, st.ProjectDescription>>, run)
                    IN  IF res.err # NilErr
                        THEN Result(Reset(st), NoResponse, res.err, calls)
                        ELSE Result(Reset(st), Text(<<"Project created successfully!">>),
                                    NilErr, calls)
                    : run \in OperationRuns }

\* case "confirm_creation"
PromptConfirmCreation(st, response) ==
    IF st.PendingPrompt.type # "Confirmation"
    THEN { Result(st, NoResponse, <<"invalid prompt type: expected Confirmation">>, NoCalls) }
    ELSE LET v == ConfirmationValidate(st.PendingPrompt, response)
         IN  IF v.err # NilErr
             THEN { Result(st, NoResponse, v.err, NoCalls) }
             ELSE IF ~v.value
             THEN { Result(Reset(st), Text(<<"Project creation cancelled.">>), NilErr, NoCalls) }
             ELSE { LET res == run
                        calls == CallsOf("CreateProject",
                                         <<st.ProjectName, st.ProjectDescription>>, run)
                    IN  IF res.err # NilErr
                        THEN Result(st, NoResponse, res.err, calls)
                        ELSE Result(Reset(st), Text(<<"Project created successfully!">>),
                                    NilErr, calls)
                    : run \in OperationRuns }

\* case "role_user" that stores the user before it knows the user exists.
PromptRoleUser_StoresUnknownUser(st, response) ==
    { LET res == run
          calls == CallsOf("ValidateUser", <<response>>, run)
      IN  IF res.err # NilErr
          THEN Result(st, NoResponse, res.err, calls)
          ELSE IF ~res.val
          THEN LET prompt == NewPrompt(<<"User not found. Please enter a valid email:">>,
                                       <<>>, Empty)
               IN  Result([st EXCEPT !.RoleUser = response,
                                     !.PendingPrompt = prompt],
                          PromptFormat(prompt), NilErr, calls)
          ELSE LET prompt == NewPrompt(<<"Please select a role type:">>,
                                       RoleOptions, sMember)
               IN  Result([st EXCEPT !.RoleUser = response,
                                     !.CurrentStep = StepRoleType,
                                     !.PendingPrompt = prompt],
                          PromptFormat(prompt), NilErr, calls)
      : run \in ValidationRuns }

\* case "role_user" that gives the flow up when the user is not found.
PromptRoleUser_GivesUp(st, response) ==
    { LET res == run
          calls == CallsOf("ValidateUser", <<response>>, run)
      IN  IF res.err # NilErr
          THEN Result(st, NoResponse, res.err, calls)
          ELSE IF ~res.val
          THEN Result(Reset(st), Text(<<"User not found.">>), NilErr, calls)
          ELSE LET prompt == NewPrompt(<<"Please select a role type:">>,
                                       RoleOptions, sMember)
               IN  Result([st EXCEPT !.RoleUser = response,
                                     !.CurrentStep = StepRoleType,
                                     !.PendingPrompt = prompt],
                          PromptFormat(prompt), NilErr, calls)
      : run \in ValidationRuns }

\* case "role_user"
PromptRoleUser(st, response) ==
    { LET res == run
          calls == CallsOf("ValidateUser", <<response>>, run)
      IN  IF res.err # NilErr
          THEN Result(st, NoResponse, res.err, calls)
          ELSE IF ~res.val
          THEN LET prompt == NewPrompt(<<"User not found. Please enter a valid email:">>,
                                       <<>>, Empty)
               IN  Result([st EXCEPT !.PendingPrompt = prompt],
                          PromptFormat(prompt), NilErr, calls)
          ELSE LET prompt == NewPrompt(<<"Please select a role type:">>,
                                       RoleOptions, sMember)
               IN  Result([st EXCEPT !.RoleUser = response,
                                     !.CurrentStep = StepRoleType,
                                     !.PendingPrompt = prompt],
                          PromptFormat(prompt), NilErr, calls)
      : run \in ValidationRuns }

\* case "role_type" that stores the answer and asks the same question again.
PromptRoleType_AsksAgain(st, response) ==
    { Result([st EXCEPT !.RoleType = response], PromptFormat(st.PendingPrompt),
             NilErr, NoCalls) }

\* case "role_type" whose confirmation defaults to no.
PromptRoleType_DefaultNo(st, response) ==
    LET confirm == NewConfirmation(
                       <<"Assign role '%s' to user '%s' in project '%s'?",
                         response, st.RoleUser, st.ProjectName>>, FALSE)
        st1 == [st EXCEPT !.RoleType = response,
                          !.CurrentStep = StepConfirmRole,
                          !.PendingPrompt = confirm]
    IN  { Result(st1, ConfirmationFormat(confirm), NilErr, NoCalls) }

\* case "role_type"
PromptRoleType(st, response) ==
    LET confirm == NewConfirmation(
                       <<"Assign role '%s' to user '%s' in project '%s'?",
                         response, st.RoleUser, st.ProjectName>>, TRUE)
        st1 == [st EXCEPT !.RoleType = response,
                          !.CurrentStep = StepConfirmRole,
                          !.PendingPrompt = confirm]
    IN  { Result(st1, ConfirmationFormat(confirm), NilErr, NoCalls) }

\* case "confirm_role"
PromptConfirmRole(st, response) ==
    IF st.PendingPrompt.type # "Confirmation"
    THEN { Result(st, NoResponse, <<"invalid prompt type: expected Confirmation">>, NoCalls) }
    ELSE LET v == ConfirmationValidate(st.PendingPrompt, response)
         IN  IF v.err # NilErr
             THEN { Result(st, NoResponse, v.err, NoCalls) }
             ELSE IF ~v.value
             THEN { Result(Reset(st), Text(<<"Role assignment cancelled.">>), NilErr, NoCalls) }
             ELSE { LET res == run
                        calls == CallsOf("AssignRoles",
                                         AssignRolesArgs(st.ProjectName, <<st.RoleUser>>), run)
                    IN  IF res.err # NilErr
                        THEN Result(st, NoResponse, res.err, calls)
                        ELSE Result(Reset(st), Text(<<"Role assigned successfully!">>),
                                    NilErr, calls)
                    : run \in OperationRuns }

handlePromptResponse(st, response) ==
    CASE st.CurrentStep = StepProjectSelection -> PromptProjectSelection(st, response)
      [] st.CurrentStep = StepProjectName -> PromptProjectName(st, response)
      [] st.CurrentStep = StepProjectDescription -> PromptProjectDescription(st, response)
      [] st.CurrentStep = StepConfirmCreation -> PromptConfirmCreation(st, response)
      [] st.CurrentStep = StepRoleUser -> PromptRoleUser(st, response)
      [] st.CurrentStep = StepRoleType -> PromptRoleType(st, response)
      [] st.CurrentStep = StepConfirmRole -> PromptConfirmRole(st, response)
      [] OTHER -> { Result(st, NoResponse, <<"unknown step: %s">>, NoCalls) }

(***************************************************************************)
(* Bot.handleCommand and the command handlers                              *)
(***************************************************************************)
\* command.HelpCommand
HelpCommand(args) ==
    IF Len(args) > 0
    THEN LET g == RegistryGet(args[1])
         IN  IF ~g.ok
             THEN [resp |-> NoResponse, err |-> NewValidationError(NilErr)]
             ELSE [resp |-> Text(<<"Command: /%s", g.cmd.Name>>), err |-> NilErr]
    ELSE [resp |-> Text(<<"Available commands:">>), err |-> NilErr]

\* command.ListProjectsCommand
ListProjectsCommand(args) ==
    [resp |-> Text(<<"Project listing not yet implemented">>), err |-> NilErr]

\* case "create-project" that always asks for the name and drops the argument.
handleCreateProject_IgnoresArgument(st, args) ==
    LET prompt == NewPrompt(<<"Please enter a project name:">>, <<>>, Empty)
    IN  Result([Reset(st) EXCEPT !.CurrentStep = StepProjectName,
                                 !.PendingPrompt = prompt],
               PromptFormat(prompt), NilErr, NoCalls)

\* case "create-project" of handleCommand.  A wizard is entered: Reset, then
\* the given fields, step and prompt.
handleCreateProject(st, args) ==
    IF Len(args) = 0
    THEN LET prompt == NewPrompt(<<"Please enter a project name:">>, <<>>, Empty)
         IN  Result([Reset(st) EXCEPT !.CurrentStep = StepProjectName,
                                      !.PendingPrompt = prompt],
                    PromptFormat(prompt), NilErr, NoCalls)
    ELSE LET prompt == NewPrompt(
                 <<"Please provide a description for project '%s':", args[1]>>,
                 <<>>, Empty)
         IN  Result([Reset(st) EXCEPT !.ProjectName = args[1],
                                      !.CurrentStep = StepProjectDescription,
                                      !.PendingPrompt = prompt],
                    PromptFormat(prompt), NilErr, NoCalls)

\* case "assign-role" that asks for the project again when the user is
\* missing.
handleAssignRole_SelectionWithoutUser(st, args) ==
    IF Len(args) < 2
    THEN LET prompt == NewPrompt(<<"Please enter the project name:">>, <<>>, Empty)
         IN  Result([Reset(st) EXCEPT !.CurrentStep = StepProjectSelection,
                                      !.PendingPrompt = prompt],
                    PromptFormat(prompt), NilErr, NoCalls)
    ELSE LET prompt == NewPrompt(
                 <<"Please select a role for user '%s' in project '%s':",
                   args[2], args[1]>>,
                 RoleOptions, sMember)
         IN  Result([Reset(st) EXCEPT !.ProjectName = args[1],
                                      !.RoleUser = args[2],
                                      !.CurrentStep = StepRoleType,
                                      !.PendingPrompt = prompt],
                    PromptFormat(prompt), NilErr, NoCalls)

\* case "assign-role" of handleCommand
handleAssignRole(st, args) ==
    IF Len(args) = 0
    THEN LET prompt == NewPrompt(<<"Please enter the project name:">>, <<>>, Empty)
         IN  Result([Reset(st) EXCEPT !.CurrentStep = StepProjectSelection,
                                      !.PendingPrompt = prompt],
                    PromptFormat(prompt), NilErr, NoCalls)
    ELSE IF Len(args) = 1
    THEN LET prompt == NewPrompt(
                 <<"Please enter the user's email for project '%s':", args[1]>>,
                 <<>>, Empty)
         IN  Result([Reset(st) EXCEPT !.ProjectName = args[1],
                                      !.CurrentStep = StepRoleUser,
                                      !.PendingPrompt = prompt],
                    PromptFormat(prompt), NilErr, NoCalls)
    ELSE LET prompt == NewPrompt(
                 <<"Please select a role for user '%s' in project '%s':",
                   args[2], args[1]>>,
                 RoleOptions, sMember)
         IN  Result([Reset(st) EXCEPT !.ProjectName = args[1],
                                      !.RoleUser = args[2],
                                      !.CurrentStep = StepRoleType,
                                      !.PendingPrompt = prompt],
                    PromptFormat(prompt), NilErr, NoCalls)

handleCommand(st, cmd, args) ==
    CASE cmd.Name = sCreateProject -> handleCreateProject(st, args)
      [] cmd.Name = sAssignRole -> handleAssignRole(st, args)
      [] cmd.Name = sListProjects ->
           LET r == ListProjectsCommand(args)
           IN  Result(st, r.resp, r.err, NoCalls)
      [] OTHER ->
           \* cmd.Handler is set for every registered command; the only
           \* command left is help.
           LET r == HelpCommand(args)
           IN  Result(st, r.resp, r.err, NoCalls)

(***************************************************************************)
(* Bot.parseCommand, Bot.handleNaturalLanguage                             *)
(***************************************************************************)
\* parseCommand that takes the first field that names a command, wherever it
\* stands in the line.
parseCommand_AnyField(input0) ==
    LET fields == Fields(TrimSpace(input0))
        Name(f) == IF HasPrefix(f, sSlash) THEN TrimPrefix(f, sSlash) ELSE f
        hits == { i \in 1..Len(fields) : RegistryGet(Name(fields[i])).ok }
    IN  IF hits = {}
        THEN [cmd |-> NoCommand, args |-> <<>>, found |-> FALSE]
        ELSE LET i == CHOOSE k \in hits : \A j \in hits : k <= j
             IN  [cmd |-> RegistryGet(Name(fields[i])).cmd,
                  args |-> SubSeq(fields, i + 1, Len(fields)), found |-> TRUE]

parseCommand(input0) ==
    LET input == TrimSpace(input0)
        fields == Fields(input)
    IN  IF input = Empty \/ Len(fields) = 0
        THEN [cmd |-> NoCommand, args |-> <<>>, found |-> FALSE]
        ELSE LET cmdName == IF HasPrefix(fields[1], sSlash)
                            THEN TrimPrefix(fields[1], sSlash)
                            ELSE fields[1]
                 g == RegistryGet(cmdName)
             IN  IF ~g.ok
                 THEN [cmd |-> NoCommand, args |-> <<>>, found |-> FALSE]
                 ELSE [cmd |-> g.cmd, args |-> Tail(fields), found |-> TRUE]

handleNaturalLanguage(message) ==
    LET msg == ToLower(TrimSpace(message))
    IN  IF Contains(msg, sCreate) /\ (Contains(msg, sProject) \/ Contains(msg, sNew))
        THEN Text(<<"Great! Let's create a new project.">>)
        ELSE IF Contains(msg, sAssign) \/ Contains(msg, sRole) \/ Contains(msg, sUser)
        THEN Text(<<"I can help you assign roles to users!">>)
        ELSE IF Contains(msg, sList) \/ Contains(msg, sShow) \/ Contains(msg, sProjects)
        THEN Text(<<"To see all available projects, use: **list-projects**">>)
        ELSE Text(<<"I'm not sure what you mean by \"%s\".", message>>)

(***************************************************************************)
(* Bot.GetConversationState, Bot.HandleMessage                             *)
(***************************************************************************)
\* Looks the conversation up and creates it when it is missing; the second
\* result is always true.
GetConversationState(map, threadID, createdAt, lastUpdated) ==
    IF threadID \in DOMAIN map
    THEN [map |-> map, state |-> map[threadID], exists |-> TRUE]
    ELSE LET st == NewConversationState(createdAt, lastUpdated)
         IN  [map |-> [i \in DOMAIN map \cup {threadID} |->
                          IF i = threadID THEN st ELSE map[i]],
              state |-> st, exists |-> TRUE]

\* How HandleMessage treated the message, with the handler's result.
Routed(route, r) ==
    [route |-> route, st |-> r.st, resp |-> r.resp, err |-> r.err, calls |-> r.calls]

\* HandleMessage that looks for the help request before the pending prompt.
HandleMessageBody_HelpFirst(st, message) ==
    IF ToLower(TrimSpace(message)) = sHelp
    THEN { Routed("help", Result(st, Text(<<"**Nobl9 Project Bot Help**">>), NilErr, NoCalls)) }
    ELSE IF st.PendingPrompt # NilPrompt
    THEN { IF r.err # NilErr
           THEN Routed("prompt",
                       Result(r.st,
                              Text(<<"Invalid response: %v. Please try again.", r.err>>),
                              NilErr, r.calls))
           ELSE Routed("prompt", r)
           : r \in handlePromptResponse(st, message) }
    ELSE LET p == parseCommand(message)
         IN  IF p.found
             THEN { Routed("command", handleCommand(st, p.cmd, p.args)) }
             ELSE { Routed("natural",
                           Result(st, handleNaturalLanguage(message), NilErr, NoCalls)) }

\* The body of HandleMessage after the state has been obtained.
HandleMessageBody(st, message) ==
    IF st.PendingPrompt # NilPrompt
    THEN { IF r.err # NilErr
           THEN Routed("prompt",
                       Result(r.st,
                              Text(<<"Invalid response: %v. Please try again.", r.err>>),
                              NilErr, r.calls))
           ELSE Routed("prompt", r)
           : r \in handlePromptResponse(st, message) }
    ELSE IF ToLower(TrimSpace(message)) = sHelp
    THEN { Routed("help", Result(st, Text(<<"**Nobl9 Project Bot Help**">>), NilErr, NoCalls)) }
    ELSE LET p == parseCommand(message)
         IN  IF p.found
             THEN { Routed("command", handleCommand(st, p.cmd, p.args)) }
             ELSE { Routed("natural",
                           Result(st, handleNaturalLanguage(message), NilErr, NoCalls)) }

HandleMessageResults(g, message) ==
    IF ~g.exists
    THEN LET st == [NewConversationState(0, 0) EXCEPT !.LastUpdated = g.state.LastUpdated]
         IN  IF TrimSpace(message) = Empty \/ message = sHelp \/ message = sStart
             THEN { Routed("welcome",
                           Result(st, Text(<<"Hello! I'm your Nobl9 Project Bot.">>),
                                  NilErr, NoCalls)) }
             ELSE HandleMessageBody(st, message)
    ELSE HandleMessageBody(g.state, message)

(***************************************************************************)
(* The environment: conversation ids, messages and clock readings          *)
(***************************************************************************)
ConvIds == {"cli"}

Times == {1}

mSpace == <<" ">>
mYes == <<"y","e","s">>
mYPadded == <<" ","Y"," ">>
mNoPadded == <<" ","N","o"," ">>
mNCap == <<"N">>
mSlashCreate == <<"/","c","r","e","a","t","e">>
mNewP1 == <<"n","e","w"," ","p","1">>
mAssignRole == <<"a","s","s","i","g","n","-","r","o","l","e">>
mSlashAssignP1 == <<"/","a","s","s","i","g","n"," ","p","1">>
mRoleP1U1 == <<"r","o","l","e"," ","p","1"," "," ","u","1">>
mHelp == <<"h","e","l","p">>
mP1 == <<"p","1">>
mU1 == <<"u","1">>
mMember == <<"m","e","m","b","e","r">>

Messages ==
    { mSpace, mYes, mYPadded, mNoPadded, mNCap, mSlashCreate, mNewP1,
      mAssignRole, mSlashAssignP1, mRoleP1U1, mHelp, mP1, mU1, mMember }

(***************************************************************************)
(* Actions                                                                 *)
(***************************************************************************)
NoLast ==
    [op |-> "none", id |-> "", msg |-> Empty, route |-> "", resp |-> NoResponse,
     err |-> NilErr, calls |-> NoCalls]

Init ==
    /\ state = <<>>
    /\ last = NoLast

\* HandleMessage whose lookup takes the state of another conversation for an
\* id the map does not hold.
HandleMessage_SharedState(conversationID, message) ==
    \E now \in IF conversationID \in DOMAIN state
               THEN {<<0, 0>>}
               ELSE {t \in Times \X Times : t[1] <= t[2]} :
        LET g0 == GetConversationState(state, conversationID, now[1], now[2])
            g == IF conversationID \notin DOMAIN state /\ DOMAIN state # {}
                 THEN [g0 EXCEPT !.state = state[CHOOSE i \in DOMAIN state : TRUE]]
                 ELSE g0
        IN  \E r \in HandleMessageResults(g, message) :
                /\ state' = [g.map EXCEPT ![conversationID] = r.st]
                /\ last' = [op |-> "HandleMessage", id |-> conversationID,
                            msg |-> message, route |-> r.route, resp |-> r.resp,
                            err |-> r.err, calls |-> r.calls]

\* One complete call HandleMessage(conversationID, message).  The clock is
\* read only when the conversation is created.
HandleMessage(conversationID, message) ==
    \E now \in IF conversationID \in DOMAIN state
               THEN {<<0, 0>>}
               ELSE {t \in Times \X Times : t[1] <= t[2]} :
        LET g == GetConversationState(state, conversationID, now[1], now[2])
        IN  \E r \in HandleMessageResults(g, message) :
                /\ state' = [g.map EXCEPT ![conversationID] = r.st]
                /\ last' = [op |-> "HandleMessage", id |-> conversationID,
                            msg |-> message, route |-> r.route, resp |-> r.resp,
                            err |-> r.err, calls |-> r.calls]

\* EndConversation that resets the conversation and keeps it in the map.
EndConversation_ResetsState(threadID) ==
    /\ state' = [i \in DOMAIN state |->
                    IF i = threadID THEN Reset(state[i]) ELSE state[i]]
    /\ last' = [NoLast EXCEPT !.op = "EndConversation", !.id = threadID,
                              !.route = IF threadID \in DOMAIN state
                                        THEN state[threadID].CurrentStep
                                        ELSE "absent"]

\* Bot.EndConversation.  last.route records the step the conversation was
\* at, "absent" when the map held none.
EndConversation(threadID) ==
    /\ state' = [i \in DOMAIN state \ {threadID} |-> state[i]]
    /\ last' = [NoLast EXCEPT !.op = "EndConversation", !.id = threadID,
                              !.route = IF threadID \in DOMAIN state
                                        THEN state[threadID].CurrentStep
                                        ELSE "absent"]

\* ConversationState.Reset called on a state of the map.
ResetCall(id) ==
    /\ id \in DOMAIN state
    /\ state' = [state EXCEPT ![id] = Reset(state[id])]
    /\ last' = [NoLast EXCEPT !.op = "Reset", !.id = id]

Next ==
    \/ \E id \in ConvIds, m \in Messages : HandleMessage(id, m)
    \/ \E id \in ConvIds : EndConversation(id)
    \/ \E id \in ConvIds : ResetCall(id)

Spec == Init /\ [][Next]_vars

(***************************************************************************)
(* The wizards entered by command lines: every spelling of create-project  *)
(* and assign-role, with its arguments, sent when no prompt is pending,    *)
(* and a few answers sent when one is.                                     *)
(***************************************************************************)
\* Most arguments of a command line.
MaxArgs == 2

RECURSIVE Join(_)
Join(words) ==
    IF Len(words) = 0 THEN Empty
    ELSE IF Len(words) = 1 THEN words[1]
    ELSE words[1] \o <<" ">> \o Join(Tail(words))

CommandLine(prefix, word, args) == prefix \o Join(<<word>> \o args)

Prefixes == {Empty, sSlash}

CreateWords == {sCreateProject, sCreate, sNew}

AssignWords == {sAssignRole, sAssign, sRole}

ArgValues == {mP1, mU1}

ArgLists == UNION { [1..n -> ArgValues] : n \in 0..MaxArgs }

CommandLines ==
    { CommandLine(p, w, a) :
        p \in Prefixes, w \in CreateWords \cup AssignWords, a \in ArgLists }

WizardAnswers == {mP1, mU1, mYes, mNCap}

\* What a user says instead of a command: the phrase of the welcome text,
\* sentences with the key words of the three hints, a word without any, and
\* a blank line.
tCreateProject == <<"c","r","e","a","t","e"," ","p","r","o","j","e","c","t">>
tLetsCreateProject ==
    <<"l","e","t","s"," ","c","r","e","a","t","e"," ","p","r","o","j","e","c","t">>
tUsers == <<"u","s","e","r","s">>
tShow == <<"s","h","o","w">>

SaidTexts == {tCreateProject, tLetsCreateProject, tUsers, tShow, mP1, mSpace}

PromptPending(id) == id \in DOMAIN state /\ state[id].PendingPrompt # NilPrompt

\* HandleMessage with a command line, for a conversation that waits for none.
SendCommand(id, line) ==
    /\ ~PromptPending(id)
    /\ HandleMessage(id, line)

\* HandleMessage with something said, for a conversation that waits for no
\* answer.
SendText(id, text) ==
    /\ ~PromptPending(id)
    /\ HandleMessage(id, text)

\* HandleMessage with the answer to the pending prompt.
AnswerPrompt(id, answer) ==
    /\ PromptPending(id)
    /\ HandleMessage(id, answer)

NextCommands ==
    \/ \E id \in ConvIds, line \in CommandLines : SendCommand(id, line)
    \/ \E id \in ConvIds, text \in SaidTexts : SendText(id, text)
    \/ \E id \in ConvIds, answer \in WizardAnswers : AnswerPrompt(id, answer)
    \/ \E id \in ConvIds : EndConversation(id)
    \/ \E id \in ConvIds : ResetCall(id)

SpecCommands == Init /\ [][NextCommands]_vars

(***************************************************************************)
(* The wizards with a user who keeps answering and a collaborator that     *)
(* cooperates in the end: an answer that moves the conversation to another *)
(* step, which is possible at every step of a flow, is not put off for     *)
(* ever.                                                                   *)
(***************************************************************************)
\* HandleMessage with an answer the handler accepts: the step changes.
AnswerAccepted(id) ==
    \E answer \in WizardAnswers :
        /\ AnswerPrompt(id, answer)
        /\ state'[id].CurrentStep # state[id].CurrentStep

NextFlows ==
    \/ \E id \in ConvIds, line \in CommandLines : SendCommand(id, line)
    \/ \E id \in ConvIds, answer \in WizardAnswers : AnswerPrompt(id, answer)

SpecFlows ==
    /\ Init
    /\ [][NextFlows]_vars
    /\ \A id \in ConvIds : WF_vars(AnswerAccepted(id))

(***************************************************************************)
(* The role flow with each of the three role types as the answer at        *)
(* role_type.                                                              *)
(***************************************************************************)
RoleCommands == {mRoleP1U1, mSlashAssignP1}

RoleAnswers == {sAdmin, sMember, sViewer, mU1, mYes, mNCap}

NextRoles ==
    \/ \E id \in ConvIds, line \in RoleCommands : SendCommand(id, line)
    \/ \E id \in ConvIds, answer \in RoleAnswers : AnswerPrompt(id, answer)

SpecRoles == Init /\ [][NextRoles]_vars

(***************************************************************************)
(* The two flows with blank lines among the answers.                       *)
(***************************************************************************)
BlankAnswers == {Empty, mSpace, <<"\t", " ">>}

BlankCommands == {mNewP1, mRoleP1U1}

NextBlank ==
    \/ \E id \in ConvIds, line \in BlankCommands : SendCommand(id, line)
    \/ \E id \in ConvIds, answer \in BlankAnswers \cup {mYes, mMember, mNCap} :
          AnswerPrompt(id, answer)

SpecBlank == Init /\ [][NextBlank]_vars

(***************************************************************************)
(* Bot.Start: the loop of the command line.  state holds the position of   *)
(* Start, the lines standard input still has (none left: end of file),     *)
(* whether the context is cancelled, and the map of the bot; last is the   *)
(* last thing Start did, with the message it passed to HandleMessage.      *)
(* One turn of the loop is two steps: the prompt is printed, then a line   *)
(* is read.                                                                *)
(***************************************************************************)
\* Most lines standard input has.
MaxLines == 2

sQuit == <<"q","u","i","t">>
sExit == <<"e","x","i","t">>

CliLines == {mSlashCreate, mP1, mSpace, sQuit, <<" ">> \o sExit}

StartLast(op, msg) == [op |-> op, msg |-> msg]

InitStart ==
    /\ state \in [pc : {"start"},
                  stdin : UNION { [1..n -> CliLines] : n \in 0..MaxLines },
                  cancelled : {FALSE},
                  map : {<<>>}]
    /\ last = StartLast("none", Empty)

\* The map after HandleMessage("cli", message).
MapsAfter(map, message) ==
    { [g.map EXCEPT !["cli"] = r.st] :
        g \in { GetConversationState(map, "cli", t, t) : t \in Times },
        r \in UNION { HandleMessageResults(GetConversationState(map, "cli", t, t), message)
                      : t \in Times } }

\* The welcome message is printed and HandleMessage("cli", "start") called.
StartBegin ==
    /\ state.pc = "start"
    /\ \E map \in MapsAfter(state.map, sStart) :
          state' = [state EXCEPT !.pc = "loop", !.map = map]
    /\ last' = StartLast("HandleMessage", sStart)

\* The context given to Start is cancelled.
Cancel ==
    /\ state.pc # "returned"
    /\ ~state.cancelled
    /\ state' = [state EXCEPT !.cancelled = TRUE]
    /\ last' = StartLast("cancel", Empty)

\* case <-ctx.Done(): return nil
CtxDone ==
    /\ state.pc = "loop"
    /\ state.cancelled
    /\ state' = [state EXCEPT !.pc = "returned"]
    /\ last' = StartLast("return", Empty)

\* default: fmt.Print("> ")
PrintPrompt ==
    /\ state.pc = "loop"
    /\ ~state.cancelled
    /\ state' = [state EXCEPT !.pc = "scan"]
    /\ last' = StartLast("Print", Empty)

\* scanner.Scan() returns false at the end of the input: continue
ReadEOF ==
    /\ state.pc = "scan"
    /\ state.stdin = <<>>
    /\ state' = [state EXCEPT !.pc = "loop"]
    /\ last' = StartLast("Scan", Empty)

\* scanner.Scan() returns a line.  A blank line is skipped, quit and exit
\* return, every other line is passed to HandleMessage.
ReadLine ==
    /\ state.pc = "scan"
    /\ state.stdin # <<>>
    /\ LET input == TrimSpace(Head(state.stdin))
       IN  IF input = Empty
           THEN /\ state' = [state EXCEPT !.stdin = Tail(@), !.pc = "loop"]
                /\ last' = StartLast("continue", Empty)
           ELSE IF input = sQuit \/ input = sExit
           THEN /\ state' = [state EXCEPT !.stdin = Tail(@), !.pc = "returned"]
                /\ last' = StartLast("return", Empty)
           ELSE /\ \E map \in MapsAfter(state.map, input) :
                      state' = [state EXCEPT !.stdin = Tail(@), !.map = map,
                                             !.pc = "loop"]
                /\ last' = StartLast("HandleMessage", input)

\* What Start does by itself.
StartStep ==
    \/ StartBegin
    \/ CtxDone
    \/ PrintPrompt
    \/ ReadEOF
    \/ ReadLine

NextStart ==
    \/ StartBegin
    \/ Cancel
    \/ CtxDone
    \/ PrintPrompt
    \/ ReadEOF
    \/ ReadLine

\* Start keeps running while it has a step to take.
SpecStart == InitStart /\ [][NextStart]_vars /\ WF_vars(StartStep)

(***************************************************************************)
(* The recovery functions applied to an error and an attempts counter.     *)
(* state is the error and the counter a retry loop holds, last the call    *)
(* made with them and its result.                                          *)
(***************************************************************************)
\* Longest Unwrap chain of an error given to the recovery functions.
MaxChain == 2

\* Largest attempts counter given to ShouldRetry.
MaxAttemptsGiven == 4

\* The errors: nil, BotErrors of every type, plain errors, and errors that
\* wrap one of these.
ErrorChains == UNION { [1..n -> ErrorTypes \cup {"plain"}] : n \in 0..MaxChain }

InitRecovery ==
    /\ state \in [err : ErrorChains, attempts : 0..MaxAttemptsGiven]
    /\ last = [op |-> "none", args |-> <<>>, result |-> FALSE]

CallGetRecoveryForError ==
    /\ last' = [op |-> "GetRecoveryForError", args |-> <<state.err>>,
                result |-> GetRecoveryForError(state.err)]
    /\ UNCHANGED state

CallShouldRetry ==
    /\ last' = [op |-> "ShouldRetry", args |-> <<state.err, state.attempts>>,
                result |-> ShouldRetry(state.err, state.attempts)]
    /\ UNCHANGED state

CallGetRetryDelay ==
    /\ last' = [op |-> "GetRetryDelay", args |-> <<state.err>>,
                result |-> GetRetryDelay(state.err)]
    /\ UNCHANGED state

\* The six predicates of the errors package applied to the error.
CallIsError ==
    /\ last' = [op |-> "IsError", args |-> <<state.err>>,
                result |-> [validation_error |-> IsValidationError(state.err),
                            not_found_error |-> IsNotFoundError(state.err),
                            conflict_error |-> IsConflictError(state.err),
                            rate_limit_error |-> IsRateLimitError(state.err),
                            internal_error |-> IsInternalError(state.err),
                            timeout_error |-> IsTimeoutError(state.err)]]
    /\ UNCHANGED state

NextRecovery ==
    \/ CallIsError
    \/ CallGetRecoveryForError
    \/ CallShouldRetry
    \/ CallGetRetryDelay

SpecRecovery == InitRecovery /\ [][NextRecovery]_vars

(***************************************************************************)
(* ConversationState.Reset applied to any conversation state: the fields   *)
(* of the struct are exported, so a state can hold any values.             *)
(***************************************************************************)
\* Latest reading of the clock held by a conversation state; 0 is the zero
\* time.
MaxInstant == 2

Instants == 0..MaxInstant

Steps ==
    {StepIdle, StepProjectSelection, StepProjectName, StepProjectDescription,
     StepConfirmCreation, StepRoleUser, StepRoleType, StepConfirmRole}

PendingPrompts ==
    { NilPrompt,
      NewPrompt(<<"Please enter a project name:">>, <<>>, Empty),
      NewPrompt(<<"Please select a role type:">>, RoleOptions, sMember),
      NewConfirmation(<<"Create project '%s' with description '%s'?", mP1, mU1>>, TRUE) }

UserRolesValues == { <<>>, [u \in {mU1} |-> <<sAdmin>>] }

ConversationStates ==
    [ProjectName : {Empty, mP1}, ProjectDescription : {Empty, mU1},
     Owner : {Empty, mU1}, CreatedAt : Instants, UserRoles : UserRolesValues,
     LastUpdated : Instants, Step : {"", "description"},
     PendingPrompt : PendingPrompts, CurrentStep : Steps,
     RoleUser : {Empty, mU1}, RoleType : {Empty, sAdmin}]

InitReset ==
    /\ \E ids \in SUBSET ConvIds : state \in [ids -> ConversationStates]
    /\ last = NoLast

NextReset == \E id \in ConvIds : ResetCall(id)

SpecReset == InitReset /\ [][NextReset]_vars

(***************************************************************************)
(* Prompt.Validate and Confirmation.Validate applied to a prompt and an    *)
(* answer.  state is the prompt and the answer, last the call made with    *)
(* them and its result.                                                    *)
(***************************************************************************)
\* Longest answer.
MaxAnswerLen == 3

AnswerChars == {" ", "\t", "y", "Y", "e", "s", "n", "N", "o"}

Answers == UNION { [1..n -> AnswerChars] : n \in 0..MaxAnswerLen }

\* Option lists: none; two options; an option spelled with a capital; two
\* options that differ in case only; an empty option.
OptionLists ==
    { <<>>, <<sYes, sNo>>, << <<"Y", "e", "s">>, sNo >>, << <<"N">>, sN >>,
      <<Empty, sNo>> }

\* Defaults: none, one that is an option of some lists, one that is an
\* option of no list.
Defaults == {Empty, sNo, <<"e">>}

PromptValues ==
    { NewPrompt(<<"Choose an option">>, o, dflt) : o \in OptionLists, dflt \in Defaults }

ConfirmationValues == { NewConfirmation(<<"Continue?">>, y) : y \in BOOLEAN }

InitInteractive ==
    /\ state \in [prompt : PromptValues \cup ConfirmationValues, response : Answers]
    /\ last = [op |-> "none", args |-> <<>>, result |-> FALSE]

CallPromptValidate ==
    /\ state.prompt.type = "Prompt"
    /\ last' = [op |-> "Prompt.Validate", args |-> <<state.prompt, state.response>>,
                result |-> PromptValidate(state.prompt, state.response)]
    /\ UNCHANGED state

CallConfirmationValidate ==
    /\ state.prompt.type = "Confirmation"
    /\ last' = [op |-> "Confirmation.Validate",
                args |-> <<state.prompt, state.response>>,
                result |-> ConfirmationValidate(state.prompt, state.response)]
    /\ UNCHANGED state

NextInteractive ==
    \/ CallPromptValidate
    \/ CallConfirmationValidate

SpecInteractive == InitInteractive /\ [][NextInteractive]_vars

(***************************************************************************)
(* One retry loop of handlePromptResponse, call by call.  state is the     *)
(* operation the loop calls, its attempts counter, the sleeps it has made  *)
(* (the error slept for and the delay in seconds) and whether it still     *)
(* runs; last is the outcome of the last call.                             *)
(***************************************************************************)
\* The collaborator operations that are called in a retry loop.
LoopOperations == {"ValidateProjectName", "CreateProject", "ValidateUser", "AssignRoles"}

\* The errors a call can return: a BotError of each type, or a plain error.
LoopErrors == { <<t>> : t \in ErrorTypes } \cup { <<"plain">> }

InitRetry ==
    /\ state \in [op : LoopOperations, attempts : {0}, sleeps : {<<>>},
                  phase : {"loop"}]
    /\ last = [op |-> "none", err |-> NilErr, calls |-> 0]

\* The call succeeds: break.
CallSucceeds ==
    /\ state.phase = "loop"
    /\ state' = [state EXCEPT !.phase = "done"]
    /\ last' = [op |-> state.op, err |-> NilErr, calls |-> last.calls + 1]

\* The call fails and ShouldRetry says no: the error is returned.
CallFailsForGood(err) ==
    /\ state.phase = "loop"
    /\ ~ShouldRetry(err, state.attempts)
    /\ state' = [state EXCEPT !.phase = "failed"]
    /\ last' = [op |-> state.op, err |-> err, calls |-> last.calls + 1]

\* The loop without attempts++.
CallFailsAndSleeps_NoIncrement(err) ==
    /\ state.phase = "loop"
    /\ ShouldRetry(err, state.attempts)
    /\ state' = [state EXCEPT
                   !.sleeps = Append(@, [err |-> err, delay |-> GetRetryDelay(err)])]
    /\ last' = [op |-> state.op, err |-> err, calls |-> last.calls + 1]

\* The call fails and ShouldRetry says yes: Sleep(GetRetryDelay(err)),
\* attempts++, and the loop goes on.
CallFailsAndSleeps(err) ==
    /\ state.phase = "loop"
    /\ ShouldRetry(err, state.attempts)
    /\ state' = [state EXCEPT
                   !.sleeps = Append(@, [err |-> err, delay |-> GetRetryDelay(err)]),
                   !.attempts = @ + 1]
    /\ last' = [op |-> state.op, err |-> err, calls |-> last.calls + 1]

NextRetry ==
    \/ CallSucceeds
    \/ \E err \in LoopErrors : CallFailsForGood(err)
    \/ \E err \in LoopErrors : CallFailsAndSleeps(err)

SpecRetry == InitRetry /\ [][NextRetry]_vars

(***************************************************************************)
(* The bot called from several goroutines.  state holds the map of the     *)
(* bot (conversation id -> pointer), the conversation objects the pointers *)
(* refer to, the holders of the RWMutex and, for every goroutine, the      *)
(* call it is in and its position there.  last is the last step: the       *)
(* operation, the goroutine, the access it made to the map and whether the *)
(* goroutine held the mutex then.                                          *)
(***************************************************************************)
\* Most conversation objects ever allocated.
MaxObjects == 3

\* Most sleeps of one retry loop that are followed.
MaxSleeps == 1

\* Most calls the goroutines begin, all together.
MaxRequests == 2

Procs == {"g1", "g2"}

ConcIds == {"a", "b"}

ConcMessages == {mYes, mSlashCreate}

NilPtr == 0

IdleProc ==
    [pc |-> "idle", op |-> "none", id |-> "", msg |-> Empty, ptr |-> NilPtr,
     snap |-> NewConversationState(0, 0), attempts |-> 0, overlap |-> FALSE]

\* A conversation that waits for the confirmation of a project creation.
AtConfirmCreation ==
    [NewConversationState(1, 1) EXCEPT
        !.ProjectName = mP1, !.ProjectDescription = mU1,
        !.CurrentStep = StepConfirmCreation,
        !.PendingPrompt = NewConfirmation(
            <<"Create project '%s' with description '%s'?", mP1, mU1>>, TRUE)]

Event(op, p, id, access, locked) ==
    [op |-> op, proc |-> p, id |-> id, access |-> access, locked |-> locked,
     overlap |-> FALSE]

\* The goroutine holds the mutex, for reading or for writing.
Holds(st, p) == p \in st.readers \/ st.writer = p

\* Another goroutine holds the mutex.
OthersHold(st, p) == st.readers \ {p} # {} \/ st.writer \notin {"none", p}

InitConcurrent ==
    /\ state \in
         { [map |-> <<>>, heap |-> <<>>, readers |-> {}, writer |-> "none",
            fatal |-> FALSE, requests |-> 0, calls |-> {}, procs |-> [p \in Procs |-> IdleProc]],
           [map |-> [i \in {"a"} |-> 1],
            heap |-> << [st |-> AtConfirmCreation, forId |-> "a"] >>,
            readers |-> {}, writer |-> "none", fatal |-> FALSE, requests |-> 0,
            calls |-> {}, procs |-> [p \in Procs |-> IdleProc]] }
    /\ last = Event("none", "", "", "none", FALSE)

\* Some goroutine sleeps: a goroutine that starts a call now overlaps it.
SomeoneSleeps(p) == \E q \in Procs \ {p} : state.procs[q].pc = "sleeping"

\* A goroutine calls HandleMessage(id, msg).
BeginHandleMessage(p, id, msg) ==
    /\ ~state.fatal
    /\ state.procs[p].pc = "idle"
    /\ state.requests < MaxRequests
    /\ state' = [state EXCEPT
                   !.requests = @ + 1,
                   !.procs[p] = [IdleProc EXCEPT !.pc = "gcs", !.op = "HandleMessage",
                                                 !.id = id, !.msg = msg,
                                                 !.overlap = SomeoneSleeps(p)]]
    /\ last' = Event("begin HandleMessage", p, id, "none", Holds(state, p))

\* GetConversationState: b.mu.RLock(); state, exists := b.state[threadID]
GCS_RLock(p) ==
    LET me == state.procs[p]
    IN  /\ ~state.fatal
        /\ me.pc = "gcs"
        /\ state.writer = "none"
        /\ state' = [state EXCEPT
                       !.readers = @ \cup {p},
                       !.procs[p].pc = "gcs_rlocked",
                       !.procs[p].ptr = IF me.id \in DOMAIN state.map
                                        THEN state.map[me.id] ELSE NilPtr]
        /\ last' = Event("GetConversationState", p, me.id, "read", Holds(state', p))

\* GetConversationState that keeps the read lock when it returns.
GCS_RUnlock_KeepsLock(p) ==
    LET me == state.procs[p]
    IN  /\ ~state.fatal
        /\ me.pc = "gcs_rlocked"
        /\ state' = [state EXCEPT
                       !.readers = IF me.ptr = NilPtr THEN @ \ {p} ELSE @,
                       !.procs[p].pc = IF me.ptr = NilPtr THEN "gcs_lock" ELSE "handle"]
        /\ last' = Event("GetConversationState", p, me.id, "none", FALSE)

\* GetConversationState: b.mu.RUnlock(); if !exists { b.mu.Lock() ...
GCS_RUnlock(p) ==
    LET me == state.procs[p]
    IN  /\ ~state.fatal
        /\ me.pc = "gcs_rlocked"
        /\ state' = [state EXCEPT
                       !.readers = @ \ {p},
                       !.procs[p].pc = IF me.ptr = NilPtr THEN "gcs_lock" ELSE "handle"]
        /\ last' = Event("GetConversationState", p, me.id, "none", FALSE)

\* GetConversationState that creates a state without a second lookup.
GCS_Lock_NoSecondLookup(p) ==
    LET me == state.procs[p]
        new == Len(state.heap) + 1
    IN  /\ ~state.fatal
        /\ me.pc = "gcs_lock"
        /\ state.readers = {} /\ state.writer = "none"
        /\ Len(state.heap) < MaxObjects
        /\ \E t \in Times :
             state' = [state EXCEPT
                 !.writer = p,
                 !.heap = Append(@, [st |-> NewConversationState(t, t),
                                     forId |-> me.id]),
                 !.map = [i \in DOMAIN @ \cup {me.id} |->
                            IF i = me.id THEN new ELSE @[i]],
                 !.procs[p].pc = "gcs_locked",
                 !.procs[p].ptr = new]
        /\ last' = Event("GetConversationState", p, me.id, "write", state'.writer = p)

\* GetConversationState: b.mu.Lock(); the second lookup; the creation of the
\* state when the map still has none.
GCS_Lock(p) ==
    LET me == state.procs[p]
        new == Len(state.heap) + 1
    IN  /\ ~state.fatal
        /\ me.pc = "gcs_lock"
        /\ state.readers = {} /\ state.writer = "none"
        /\ IF me.id \in DOMAIN state.map
           THEN /\ state' = [state EXCEPT
                               !.writer = p,
                               !.procs[p].pc = "gcs_locked",
                               !.procs[p].ptr = state.map[me.id]]
                /\ last' = Event("GetConversationState", p, me.id, "read", Holds(state', p))
           ELSE /\ Len(state.heap) < MaxObjects
                /\ \E t \in Times :
                     state' = [state EXCEPT
                         !.writer = p,
                         !.heap = Append(@, [st |-> NewConversationState(t, t),
                                             forId |-> me.id]),
                         !.map = [i \in DOMAIN @ \cup {me.id} |->
                                    IF i = me.id THEN new ELSE @[i]],
                         !.procs[p].pc = "gcs_locked",
                         !.procs[p].ptr = new]
                /\ last' = Event("GetConversationState", p, me.id, "write", state'.writer = p)

\* GetConversationState: the deferred b.mu.Unlock() and the return.
GCS_Unlock(p) ==
    LET me == state.procs[p]
    IN  /\ ~state.fatal
        /\ me.pc = "gcs_locked"
        /\ state' = [state EXCEPT !.writer = "none", !.procs[p].pc = "handle"]
        /\ last' = Event("GetConversationState", p, me.id, "none", FALSE)

\* The assignments a handler made to the fields of the conversation: the
\* fields in which its result differs from the state it read.
ApplyWrites(cur, snap, res) ==
    [f \in DOMAIN cur |-> IF res[f] # snap[f] THEN res[f] ELSE cur[f]]

\* HandleMessage with the state it obtained: the state is read and the
\* message handled; a handler without collaborator call finishes at once,
\* one with a call enters its retry loop.
Handle(p) ==
    LET me == state.procs[p]
        obj == state.heap[me.ptr].st
        results == HandleMessageBody(obj, me.msg)
    IN  /\ ~state.fatal
        /\ me.pc = "handle"
        /\ IF \A r \in results : r.calls.op = "none"
           THEN /\ \E r \in results :
                     state' = [state EXCEPT !.heap[me.ptr].st = r.st,
                                            !.procs[p] = IdleProc]
                /\ last' = [Event("end HandleMessage", p, me.id, "none", Holds(state, p))
                              EXCEPT !.overlap = me.overlap]
           ELSE /\ state' = [state EXCEPT !.procs[p].pc = "calling",
                                          !.procs[p].snap = obj]
                /\ last' = Event("call", p, me.id, "none", Holds(state, p))

\* The call of the collaborator fails with an error that is retried:
\* time.Sleep begins.
CallSleeps(p) ==
    LET me == state.procs[p]
    IN  /\ ~state.fatal
        /\ me.pc = "calling"
        /\ me.attempts < MaxSleeps
        /\ \E err \in LoopErrors : ShouldRetry(err, me.attempts)
        /\ state' = [state EXCEPT !.procs[p].pc = "sleeping",
                                  !.procs[p].attempts = @ + 1]
        /\ last' = Event("Sleep", p, me.id, "none", Holds(state, p))

\* time.Sleep ends and the loop calls the collaborator again.
Wake(p) ==
    LET me == state.procs[p]
    IN  /\ ~state.fatal
        /\ me.pc = "sleeping"
        /\ state' = [state EXCEPT
                       !.procs = [q \in Procs |->
                                    IF q = p THEN [@[q] EXCEPT !.pc = "calling"]
                                    ELSE [@[q] EXCEPT !.overlap = FALSE]]]
        /\ last' = Event("call", p, me.id, "none", Holds(state, p))

\* The retry loop ends, the handler makes its assignments and returns.
CallReturns(p) ==
    LET me == state.procs[p]
    IN  /\ ~state.fatal
        /\ me.pc = "calling"
        /\ \E r \in HandleMessageBody(me.snap, me.msg) :
             /\ r.calls.op # "none"
             /\ state' = [state EXCEPT
                            !.heap[me.ptr].st = ApplyWrites(@, me.snap, r.st),
                            !.calls = @ \cup {<<p, r.calls.op, r.calls.args, r.calls.ok>>},
                            !.procs[p] = IdleProc]
        /\ last' = [Event("end HandleMessage", p, me.id, "none", Holds(state, p))
                      EXCEPT !.overlap = me.overlap]

\* EndConversation: b.mu.Lock(); delete(b.state, threadID)
End_Lock(p, id) ==
    /\ ~state.fatal
    /\ state.procs[p].pc = "idle"
    /\ state.requests < MaxRequests
    /\ state.readers = {} /\ state.writer = "none"
    /\ state' = [state EXCEPT
                   !.requests = @ + 1,
                   !.writer = p,
                   !.map = [i \in DOMAIN @ \ {id} |-> @[i]],
                   !.procs[p] = [IdleProc EXCEPT !.pc = "end_locked",
                                                 !.op = "EndConversation", !.id = id]]
    /\ last' = Event("EndConversation", p, id, "write", state'.writer = p)

\* EndConversation: the deferred b.mu.Unlock()
End_Unlock(p) ==
    /\ ~state.fatal
    /\ state.procs[p].pc = "end_locked"
    /\ state' = [state EXCEPT !.writer = "none", !.procs[p] = IdleProc]
    /\ last' = Event("end EndConversation", p, state.procs[p].id, "none", FALSE)

\* UpdateConversationState: b.mu.Lock(); the lookup; updateFn(state), here a
\* function that changes nothing; state.LastUpdated = time.Now()
Update_Lock(p, id) ==
    /\ ~state.fatal
    /\ state.procs[p].pc = "idle"
    /\ state.requests < MaxRequests
    /\ state.readers = {} /\ state.writer = "none"
    /\ \E t \in Times :
         state' = [state EXCEPT
             !.requests = @ + 1,
             !.writer = p,
             !.heap = IF id \in DOMAIN state.map
                      THEN [@ EXCEPT ![state.map[id]].st.LastUpdated = t]
                      ELSE @,
             !.procs[p] = [IdleProc EXCEPT !.pc = "update_locked",
                                           !.op = "UpdateConversationState",
                                           !.id = id]]
    /\ last' = Event("UpdateConversationState", p, id, "read", Holds(state', p))

\* UpdateConversationState: the deferred b.mu.Unlock()
Update_Unlock(p) ==
    /\ ~state.fatal
    /\ state.procs[p].pc = "update_locked"
    /\ state' = [state EXCEPT !.writer = "none", !.procs[p] = IdleProc]
    /\ last' = Event("end UpdateConversationState", p, state.procs[p].id, "none", FALSE)

\* StartConversation: the call of ValidateProjectName begins.
Start_Call(p, projectName) ==
    /\ ~state.fatal
    /\ state.procs[p].pc = "idle"
    /\ state.requests < MaxRequests
    /\ state' = [state EXCEPT
                   !.requests = @ + 1,
                   !.procs[p] = [IdleProc EXCEPT !.pc = "start_calling",
                                                 !.op = "StartConversation",
                                                 !.id = projectName]]
    /\ last' = Event("ValidateProjectName", p, projectName, "none", Holds(state, p))

\* StartConversation: ValidateProjectName returns an error or reports the
\* name taken, and StartConversation returns an error.
Start_Fails(p) ==
    /\ ~state.fatal
    /\ state.procs[p].pc = "start_calling"
    /\ state' = [state EXCEPT !.procs[p] = IdleProc]
    /\ last' = Event("end StartConversation", p, state.procs[p].id, "none",
                     Holds(state, p))

\* StartConversation: the name is valid and b.state[projectName] = state is
\* executed.  When another goroutine holds the mutex (and so may access the
\* map) the write races with it: it takes effect, is lost, or the runtime
\* stops the program (concurrent map writes).
Start_Store(p) ==
    LET me == state.procs[p]
        new == Len(state.heap) + 1
        obj == [NewConversationState(0, 0) EXCEPT !.ProjectName = <<me.id>>,
                                                  !.Step = "description"]
    IN  /\ ~state.fatal
        /\ me.pc = "start_calling"
        /\ Len(state.heap) < MaxObjects
        /\ \E t \in Times, outcome \in IF OthersHold(state, p)
                                       THEN {"stored", "lost", "fatal"}
                                       ELSE {"stored"} :
             state' = [state EXCEPT
                 !.heap = Append(@, [st |-> [obj EXCEPT !.CreatedAt = t],
                                     forId |-> me.id]),
                 !.map = IF outcome = "stored"
                         THEN [i \in DOMAIN @ \cup {me.id} |->
                                 IF i = me.id THEN new ELSE @[i]]
                         ELSE @,
                 !.fatal = outcome = "fatal",
                 !.procs[p] = IdleProc]
        /\ last' = Event("StartConversation", p, me.id, "write", state.writer = p)

\* Concurrent calls of HandleMessage only.
NextMessages ==
    \/ \E p \in Procs, id \in ConcIds, msg \in ConcMessages : BeginHandleMessage(p, id, msg)
    \/ \E p \in Procs : GCS_RLock(p)
    \/ \E p \in Procs : GCS_RUnlock(p)
    \/ \E p \in Procs : GCS_Lock(p)
    \/ \E p \in Procs : GCS_Unlock(p)
    \/ \E p \in Procs : Handle(p)
    \/ \E p \in Procs : CallSleeps(p)
    \/ \E p \in Procs : Wake(p)
    \/ \E p \in Procs : CallReturns(p)

SpecMessages == InitConcurrent /\ [][NextMessages]_vars

\* Concurrent calls of every operation on the map.
NextConcurrent ==
    \/ \E p \in Procs, id \in ConcIds, msg \in ConcMessages : BeginHandleMessage(p, id, msg)
    \/ \E p \in Procs : GCS_RLock(p)
    \/ \E p \in Procs : GCS_RUnlock(p)
    \/ \E p \in Procs : GCS_Lock(p)
    \/ \E p \in Procs : GCS_Unlock(p)
    \/ \E p \in Procs : Handle(p)
    \/ \E p \in Procs : CallSleeps(p)
    \/ \E p \in Procs : Wake(p)
    \/ \E p \in Procs : CallReturns(p)
    \/ \E p \in Procs, id \in ConcIds : End_Lock(p, id)
    \/ \E p \in Procs : End_Unlock(p)
    \/ \E p \in Procs, id \in ConcIds : Update_Lock(p, id)
    \/ \E p \in Procs : Update_Unlock(p)
    \/ \E p \in Procs, name \in ConcIds : Start_Call(p, name)
    \/ \E p \in Procs : Start_Fails(p)
    \/ \E p \in Procs : Start_Store(p)

SpecConcurrent == InitConcurrent /\ [][NextConcurrent]_vars

(***************************************************************************)
(* Two conversations of one bot, each with its own id, in any order of     *)
(* their messages.                                                         *)
(***************************************************************************)
ThreadIds == {"t1", "t2"}

ThreadMessages == {mSlashCreate, mP1, mYes, mNCap}

NextThreads ==
    \/ \E id \in ThreadIds, m \in ThreadMessages : HandleMessage(id, m)
    \/ \E id \in ThreadIds : EndConversation(id)

SpecThreads == Init /\ [][NextThreads]_vars

(***************************************************************************)
(* Properties                                                              *)
(***************************************************************************)
\* The step and the fields a flow collects.
Collected(st) ==
    <<st.ProjectName, st.ProjectDescription, st.Owner, st.RoleUser, st.RoleType>>

IsReset(st) ==
    /\ st.CurrentStep = StepIdle
    /\ st.PendingPrompt = NilPrompt
    /\ Collected(st) = <<Empty, Empty, Empty, Empty, Empty>>

\* The step HandleMessage(id, _) starts from: Idle for a conversation that is
\* not in the map yet.
StepOf(map, id) == IF id \in DOMAIN map THEN map[id].CurrentStep ELSE StepIdle

\* This step is a completed call of HandleMessage.
Handled == last'.op = "HandleMessage"

\* C1: after every operation, every conversation of the map has a pending
\* prompt if and only if its step is not Idle.
C1_PromptIffNotIdle ==
    \A id \in DOMAIN state :
        (state[id].PendingPrompt # NilPrompt) <=> (state[id].CurrentStep # StepIdle)

\* A conversation that is waiting at a confirmation after a failed
\* collaborator call.
C1_Witness ==
    /\ last.op = "HandleMessage"
    /\ last.calls.op = "AssignRoles"
    /\ ~last.calls.ok
    /\ last.id \in DOMAIN state
    /\ state[last.id].CurrentStep = StepConfirmRole
    /\ state[last.id].PendingPrompt # NilPrompt

\* C2: the project-creation happy path.  /create at Idle asks for the name;
\* an available name N is stored and the description is asked for; a
\* description D is stored and the confirmation names N and D; yes with a
\* successful CreateProject calls it with (N, D) and resets the state.
C2_CreateHappyPath ==
    [][ Handled =>
          LET id == last'.id
              m == last'.msg
              new == state'[id]
          IN  /\ (StepOf(state, id) = StepIdle /\ m = mSlashCreate)
                    => /\ new.CurrentStep = StepProjectName
                       /\ new.PendingPrompt.type = "Prompt"
                       /\ last'.resp = PromptFormat(new.PendingPrompt)
                       /\ last'.err = NilErr
              /\ (StepOf(state, id) = StepProjectName
                    /\ last'.calls.ok /\ last'.calls.val)
                    => /\ last'.calls.op = "ValidateProjectName"
                       /\ last'.calls.args = <<m>>
                       /\ new.CurrentStep = StepProjectDescription
                       /\ new.ProjectName = m
                       /\ new.PendingPrompt.type = "Prompt"
                       /\ last'.err = NilErr
              /\ StepOf(state, id) = StepProjectDescription
                    => /\ new.CurrentStep = StepConfirmCreation
                       /\ new.ProjectName = state[id].ProjectName
                       /\ new.ProjectDescription = m
                       /\ new.PendingPrompt.type = "Confirmation"
                       /\ new.PendingPrompt.Message =
                              <<"Create project '%s' with description '%s'?",
                                state[id].ProjectName, m>>
                       /\ last'.resp = ConfirmationFormat(new.PendingPrompt)
                       /\ last'.err = NilErr
              /\ (StepOf(state, id) = StepConfirmCreation /\ m = mYes
                    /\ last'.calls.ok)
                    => /\ last'.calls.op = "CreateProject"
                       /\ last'.calls.args =
                              <<state[id].ProjectName, state[id].ProjectDescription>>
                       /\ IsReset(new)
                       /\ last'.resp = Text(<<"Project created successfully!">>)
                       /\ last'.err = NilErr
      ]_vars

\* The end of scenario A: yes created project p1 with description u1.
C2_Witness ==
    /\ last.op = "HandleMessage"
    /\ last.msg = mYes
    /\ last.calls = [op |-> "CreateProject", args |-> <<mP1, mU1>>, ok |-> TRUE,
                     val |-> TRUE]
    /\ IsReset(state[last.id])

\* C3: the role-assignment happy path.  /assign P at Idle stores P and asks
\* for the user; an existing user U is stored and the role type is asked for
\* with the options admin, member, viewer and the default member; member
\* leads to the confirmation; yes with a successful AssignRoles calls it for
\* project P and user U and resets the state.
C3_AssignHappyPath ==
    [][ Handled =>
          LET id == last'.id
              m == last'.msg
              new == state'[id]
          IN  /\ (StepOf(state, id) = StepIdle /\ m = mSlashAssignP1)
                    => /\ new.CurrentStep = StepRoleUser
                       /\ new.ProjectName = mP1
                       /\ new.PendingPrompt.type = "Prompt"
                       /\ last'.err = NilErr
              /\ (StepOf(state, id) = StepRoleUser
                    /\ last'.calls.ok /\ last'.calls.val)
                    => /\ last'.calls.op = "ValidateUser"
                       /\ last'.calls.args = <<m>>
                       /\ new.CurrentStep = StepRoleType
                       /\ new.ProjectName = state[id].ProjectName
                       /\ new.RoleUser = m
                       /\ new.PendingPrompt.type = "Prompt"
                       /\ new.PendingPrompt.Options = <<sAdmin, sMember, sViewer>>
                       /\ new.PendingPrompt.Default = sMember
                       /\ last'.resp = PromptFormat(new.PendingPrompt)
                       /\ last'.err = NilErr
              /\ (StepOf(state, id) = StepRoleType /\ m = mMember)
                    => /\ new.CurrentStep = StepConfirmRole
                       /\ new.ProjectName = state[id].ProjectName
                       /\ new.RoleUser = state[id].RoleUser
                       /\ new.PendingPrompt.type = "Confirmation"
                       /\ last'.resp = ConfirmationFormat(new.PendingPrompt)
                       /\ last'.err = NilErr
              /\ (StepOf(state, id) = StepConfirmRole /\ m = mYes
                    /\ last'.calls.ok)
                    => /\ last'.calls.op = "AssignRoles"
                       /\ last'.calls.args[1] = state[id].ProjectName
                       /\ { a[1] : a \in last'.calls.args[2] } = {state[id].RoleUser}
                       /\ IsReset(new)
                       /\ last'.resp = Text(<<"Role assigned successfully!">>)
                       /\ last'.err = NilErr
      ]_vars

\* The end of scenario C: yes assigned a role to u1 in p1.
C3_Witness ==
    /\ last.op = "HandleMessage"
    /\ last.msg = mYes
    /\ last.calls.op = "AssignRoles"
    /\ last.calls.ok
    /\ last.calls.args[1] = mP1
    /\ { a[1] : a \in last.calls.args[2] } = {mU1}
    /\ IsReset(state[last.id])

\* Answers that mean no, and answers that are no confirmation answer at all.
NoAnswers == {mNoPadded, mNCap}

InvalidConfirmAnswers ==
    Messages \ {mSpace, mYes, mYPadded, mNoPadded, mNCap}

ConfirmSteps == {StepConfirmCreation, StepConfirmRole}

\* C4: at either confirmation an answer no or n, in any letter case, resets
\* the conversation, returns the cancellation message and calls neither
\* CreateProject nor AssignRoles.
C4_Cancellation ==
    [][ (Handled /\ StepOf(state, last'.id) \in ConfirmSteps
           /\ last'.msg \in NoAnswers)
          => /\ IsReset(state'[last'.id])
             /\ last'.resp =
                    IF StepOf(state, last'.id) = StepConfirmCreation
                    THEN Text(<<"Project creation cancelled.">>)
                    ELSE Text(<<"Role assignment cancelled.">>)
             /\ last'.err = NilErr
             /\ last'.calls = NoCalls
      ]_vars

\* A role assignment cancelled with " No ".
C4_Witness ==
    /\ last.op = "HandleMessage"
    /\ last.msg = mNoPadded
    /\ last.resp = Text(<<"Role assignment cancelled.">>)
    /\ IsReset(state[last.id])

C6_NegativeValidationReprompts ==
    [][ (Handled /\ StepOf(state, last'.id) \in {StepProjectName, StepRoleUser}
           /\ last'.calls.ok /\ ~last'.calls.val)
          => LET old == state[last'.id]
                 new == state'[last'.id]
             IN  /\ last'.calls.op = IF old.CurrentStep = StepProjectName
                                     THEN "ValidateProjectName" ELSE "ValidateUser"
                 /\ new.CurrentStep = old.CurrentStep
                 /\ Collected(new) = Collected(old)
                 /\ new.PendingPrompt.type = "Prompt"
                 /\ new.PendingPrompt.Message =
                        IF old.CurrentStep = StepProjectName
                        THEN <<"Project name is not available. Please choose another name:">>
                        ELSE <<"User not found. Please enter a valid email:">>
                 /\ last'.resp = PromptFormat(new.PendingPrompt)
                 /\ last'.err = NilErr
      ]_vars

\* User u1 was reported not found.
C6_Witness ==
    /\ last.op = "HandleMessage"
    /\ last.msg = mU1
    /\ last.calls = [op |-> "ValidateUser", args |-> <<mU1>>, ok |-> TRUE,
                     val |-> FALSE]
    /\ state[last.id].CurrentStep = StepRoleUser
    /\ state[last.id].RoleUser = Empty

\* C7: at the role-type step an answer that is none of admin, member, viewer
\* (compared case-insensitively) leaves the step and the role type unchanged
\* and prompts the same options again; a matching answer is stored and
\* leads to the confirmation.
C7_RoleTypeEnforced ==
    [][ (Handled /\ StepOf(state, last'.id) = StepRoleType)
          => LET old == state[last'.id]
                 new == state'[last'.id]
                 m == last'.msg
             IN  IF \E i \in 1..Len(RoleOptions) : EqualFold(m, RoleOptions[i])
                 THEN /\ new.CurrentStep = StepConfirmRole
                      /\ EqualFold(new.RoleType, m)
                 ELSE /\ new.CurrentStep = StepRoleType
                      /\ new.RoleType = old.RoleType
                      /\ new.PendingPrompt.type = "Prompt"
                      /\ new.PendingPrompt.Options = old.PendingPrompt.Options
      ]_vars

\* C8: a collaborator call that failed for good while a prompt was answered
\* makes HandleMessage return a non-nil error.
C8_ErrorPropagated ==
    (last.op = "HandleMessage" /\ last.calls.op # "none" /\ ~last.calls.ok)
        => last.err # NilErr

\* C9: when a collaborator call fails for good, the conversation stays in the
\* map exactly as it was before the message; a failed CreateProject leaves
\* it at the creation confirmation and a failed AssignRoles at the role
\* confirmation.
C9_StateKeptOnFailure ==
    [][ (Handled /\ last'.calls.op # "none" /\ ~last'.calls.ok)
          => /\ last'.id \in DOMAIN state
             /\ last'.id \in DOMAIN state'
             /\ state'[last'.id] = state[last'.id]
             /\ state'[last'.id].PendingPrompt # NilPrompt
             /\ last'.calls.op = "CreateProject"
                  => state'[last'.id].CurrentStep = StepConfirmCreation
             /\ last'.calls.op = "AssignRoles"
                  => state'[last'.id].CurrentStep = StepConfirmRole
      ]_vars

\* CreateProject failed for good and the creation confirmation is pending.
C9_Witness ==
    /\ last.op = "HandleMessage"
    /\ last.calls.op = "CreateProject"
    /\ ~last.calls.ok
    /\ state[last.id].CurrentStep = StepConfirmCreation
    /\ state[last.id].PendingPrompt.type = "Confirmation"
    /\ state[last.id].ProjectName = mP1

\* C10: at a confirmation an answer that is neither empty nor y, yes, n, no
\* gets a try-again message with a nil error, causes no collaborator call
\* and leaves the conversation state unchanged.
C10_InvalidConfirmationLocal ==
    [][ (Handled /\ StepOf(state, last'.id) \in ConfirmSteps
           /\ last'.msg \in InvalidConfirmAnswers)
          => /\ last'.err = NilErr
             /\ last'.resp.body[1] = "Invalid response: %v. Please try again."
             /\ last'.calls = NoCalls
             /\ state'[last'.id] = state[last'.id]
      ]_vars

\* p1 was answered to the creation confirmation.
C10_Witness ==
    /\ last.op = "HandleMessage"
    /\ last.msg = mP1
    /\ last.resp.body[1] = "Invalid response: %v. Please try again."
    /\ state[last.id].CurrentStep = StepConfirmCreation

\* A prompt that accepts any text.
FreeTextPrompt(p) == p.type = "Prompt" /\ p.Options = <<>>

\* C11: at Idle, create-project, create or new, with or without a leading
\* slash, without arguments leads to the project-name step with an empty
\* ProjectName, and with one argument A to the project-description step with
\* ProjectName = A; in both cases a free-text prompt is pending and returned
\* and the error is nil.
C11_CreateProjectDegrades ==
    [][ (Handled /\ StepOf(state, last'.id) = StepIdle)
          => LET new == state'[last'.id]
             IN  \A p \in Prefixes, w \in CreateWords :
                     /\ last'.msg = p \o w
                          => /\ new.CurrentStep = StepProjectName
                             /\ new.ProjectName = Empty
                             /\ FreeTextPrompt(new.PendingPrompt)
                             /\ last'.resp = PromptFormat(new.PendingPrompt)
                             /\ last'.err = NilErr
                     /\ \A a \in ArgValues :
                          last'.msg = p \o w \o <<" ">> \o a
                            => /\ new.CurrentStep = StepProjectDescription
                               /\ new.ProjectName = a
                               /\ FreeTextPrompt(new.PendingPrompt)
                               /\ last'.resp = PromptFormat(new.PendingPrompt)
                               /\ last'.err = NilErr
      ]_vars

\* /new p1 was sent at Idle: the description of p1 is asked for.
C11_Witness ==
    /\ last.op = "HandleMessage"
    /\ last.route = "command"
    /\ last.msg = sSlash \o sNew \o <<" ">> \o mP1
    /\ state[last.id].CurrentStep = StepProjectDescription
    /\ state[last.id].ProjectName = mP1
    /\ FreeTextPrompt(state[last.id].PendingPrompt)

\* C12: at Idle, assign-role, assign or role, with or without a leading
\* slash, without arguments leads to the project-selection step; with one
\* argument P to the user step with ProjectName = P; with two arguments P U
\* to the role-type step with ProjectName = P, RoleUser = U and a prompt
\* whose options are admin, member, viewer.  The error is nil whatever the
\* number of arguments, and the project-selection step is entered by the
\* form without arguments only.
C12_AssignRoleDegrades ==
    [][ Handled =>
          LET id == last'.id
              m == last'.msg
              new == state'[id]
              bare == \E p \in Prefixes, w \in AssignWords : m = p \o w
          IN  /\ StepOf(state, id) = StepIdle =>
                   \A p \in Prefixes, w \in AssignWords :
                       /\ m = p \o w
                            => /\ new.CurrentStep = StepProjectSelection
                               /\ FreeTextPrompt(new.PendingPrompt)
                               /\ last'.err = NilErr
                       /\ \A P \in ArgValues :
                            m = p \o w \o <<" ">> \o P
                              => /\ new.CurrentStep = StepRoleUser
                                 /\ new.ProjectName = P
                                 /\ new.RoleUser = Empty
                                 /\ FreeTextPrompt(new.PendingPrompt)
                                 /\ last'.err = NilErr
                       /\ \A P \in ArgValues, U \in ArgValues :
                            m = p \o w \o <<" ">> \o P \o <<" ">> \o U
                              => /\ new.CurrentStep = StepRoleType
                                 /\ new.ProjectName = P
                                 /\ new.RoleUser = U
                                 /\ new.PendingPrompt.type = "Prompt"
                                 /\ new.PendingPrompt.Options = <<sAdmin, sMember, sViewer>>
                                 /\ last'.resp = PromptFormat(new.PendingPrompt)
                                 /\ last'.err = NilErr
              /\ (new.CurrentStep = StepProjectSelection
                    /\ StepOf(state, id) # StepProjectSelection)
                   => StepOf(state, id) = StepIdle /\ bare
      ]_vars

\* role p1 u1 was sent at Idle: the role of u1 in p1 is asked for.
C12_Witness ==
    /\ last.op = "HandleMessage"
    /\ last.route = "command"
    /\ last.msg = sRole \o <<" ">> \o mP1 \o <<" ">> \o mU1
    /\ state[last.id].CurrentStep = StepRoleType
    /\ state[last.id].ProjectName = mP1
    /\ state[last.id].RoleUser = mU1
    /\ state[last.id].PendingPrompt.Options = <<sAdmin, sMember, sViewer>>

\* The error is, or wraps, a BotError, and the outermost one has type t.
Classified(err, t) ==
    \E i \in 1..Len(err) :
        /\ err[i] = t
        /\ \A j \in 1..(i - 1) : err[j] \notin ErrorTypes

\* The error is nil or has no BotError in its chain.
Unclassified(err) == \A i \in 1..Len(err) : err[i] \notin ErrorTypes

\* C13: ShouldRetry(err, n) is true for a rate-limit error exactly when n is
\* 0, 1 or 2, for a timeout error exactly when n is 0 or 1, and for no n
\* when the error is a not-found, conflict, validation or internal error or
\* is unclassified; it is true exactly when the strategy for err is retry
\* and n is below its maximum of attempts.
C13_ShouldRetryTable ==
    last.op = "ShouldRetry" =>
        LET err == last.args[1]
            n == last.args[2]
        IN  /\ Classified(err, "rate_limit_error") => (last.result <=> n \in {0, 1, 2})
            /\ Classified(err, "timeout_error") => (last.result <=> n \in {0, 1})
            /\ ( \/ Classified(err, "not_found_error")
                 \/ Classified(err, "conflict_error")
                 \/ Classified(err, "validation_error")
                 \/ Classified(err, "internal_error")
                 \/ Unclassified(err) ) => ~last.result
            /\ last.result <=> /\ GetRecoveryForError(err).Strategy = "retry"
                               /\ n < GetRecoveryForError(err).MaxAttempts

\* A wrapped rate-limit error is retried after two attempts.
C13_Witness ==
    /\ last.op = "ShouldRetry"
    /\ last.args = << <<"plain", "rate_limit_error">>, 2 >>
    /\ last.result = TRUE

\* The table of recoveries: strategy, maximum of attempts, delay in seconds.
RecoveryTable(err) ==
    IF Classified(err, "rate_limit_error") THEN <<"retry", 3, 5>>
    ELSE IF Classified(err, "timeout_error") THEN <<"retry", 2, 2>>
    ELSE IF Classified(err, "not_found_error") THEN <<"fallback", 1, 0>>
    ELSE <<"cancel", 1, 0>>

C15_ResetClearsAndIsIdempotent ==
    [][ last'.op = "Reset"
          => LET new == state'[last'.id]
             IN  /\ new.CurrentStep = StepIdle
                 /\ new.PendingPrompt = NilPrompt
                 /\ new.ProjectName = Empty
                 /\ new.ProjectDescription = Empty
                 /\ new.Owner = Empty
                 /\ new.RoleUser = Empty
                 /\ new.RoleType = Empty
                 /\ Reset(new) = new
                 /\ Reset(Reset(state[last'.id])) = Reset(state[last'.id])
      ]_vars

\* A state after Reset: idle, nothing pending, nothing collected.
C15_Witness ==
    /\ last.op = "Reset"
    /\ IsReset(state[last.id])
    /\ state[last.id].Step = ""

\* C16: Reset leaves the conversation in the map under its id and leaves
\* the other conversations, CreatedAt, LastUpdated and UserRoles as they
\* were.
C16_ResetFrame ==
    [][ last'.op = "Reset"
          => LET id == last'.id
             IN  /\ id \in DOMAIN state
                 /\ DOMAIN state' = DOMAIN state
                 /\ \A other \in DOMAIN state \ {id} : state'[other] = state[other]
                 /\ state'[id].CreatedAt = state[id].CreatedAt
                 /\ state'[id].LastUpdated = state[id].LastUpdated
                 /\ state'[id].UserRoles = state[id].UserRoles
      ]_vars

\* A state after Reset that still has its timestamps and its user roles.
C16_Witness ==
    /\ last.op = "Reset"
    /\ last.id \in DOMAIN state
    /\ state[last.id].CreatedAt = 1
    /\ state[last.id].LastUpdated = 2
    /\ state[last.id].UserRoles # <<>>

CreationSteps == {StepProjectName, StepProjectDescription, StepConfirmCreation}

RoleSteps == {StepProjectSelection, StepRoleUser, StepRoleType, StepConfirmRole}

Blank(x) == \A i \in 1..Len(x) : x[i] \in {" ", "\t"}

\* C18: Prompt.Validate of an empty or white-space answer returns the
\* default of the prompt with a nil error whenever the default is not
\* empty, be it one of the options or not; Confirmation.Validate of such an
\* answer returns the default of the confirmation with a nil error.
C18_DefaultLaw ==
    /\ (last.op = "Prompt.Validate" /\ Blank(last.args[2])
          /\ last.args[1].Default # Empty)
         => last.result = [value |-> last.args[1].Default, err |-> NilErr]
    /\ (last.op = "Confirmation.Validate" /\ Blank(last.args[2]))
         => last.result = [value |-> last.args[1].DefaultYes, err |-> NilErr]

\* A blank answer to a prompt whose default is none of its options.
C18_Witness ==
    /\ last.op = "Prompt.Validate"
    /\ last.args[2] = <<" ", "\t">>
    /\ last.args[1].Options = <<sYes, sNo>>
    /\ last.args[1].Default = <<"e">>
    /\ last.result = [value |-> <<"e">>, err |-> NilErr]

\* C19: for a prompt with options, Prompt.Validate succeeds exactly when the
\* trimmed answer equals an option up to letter case, or is empty while a
\* default is set; when it succeeds on an option it returns that option as
\* the list spells it, and when it fails it returns an error and the empty
\* string.
C19_OptionEnforcement ==
    (last.op = "Prompt.Validate" /\ Len(last.args[1].Options) > 0)
        => LET p == last.args[1]
               x == TrimSpace(last.args[2])
               matches == { i \in 1..Len(p.Options) :
                              ToLower(p.Options[i]) = ToLower(x) }
               byDefault == x = Empty /\ p.Default # Empty
           IN  /\ last.result.err = NilErr <=> (matches # {} \/ byDefault)
               /\ (last.result.err = NilErr /\ ~byDefault)
                    => \E i \in matches : last.result.value = p.Options[i]
               /\ last.result.err # NilErr => last.result.value = Empty

\* yes answered to the options Yes, no: the result is spelled Yes.
C19_Witness ==
    /\ last.op = "Prompt.Validate"
    /\ last.args[1].Options = << <<"Y", "e", "s">>, sNo >>
    /\ last.args[2] = <<"y", "e", "s">>
    /\ last.result = [value |-> <<"Y", "e", "s">>, err |-> NilErr]

NaturalTexts == {tLetsCreateProject, tUsers, tShow, mP1, mSpace}

C22_CreateProjectAsksName ==
    [][ (Handled /\ StepOf(state, last'.id) = StepIdle
           /\ last'.msg = tCreateProject)
          => LET new == state'[last'.id]
             IN  /\ new.CurrentStep = StepProjectName
                 /\ new.ProjectName = Empty
                 /\ FreeTextPrompt(new.PendingPrompt)
      ]_vars

\* C27: at the four free-text steps an empty or white-space answer leaves the
\* step and the collected fields as they were, and no collaborator is
\* called with it.
C27_EmptyAnswersRejected ==
    [][ (Handled
           /\ StepOf(state, last'.id) \in
                  {StepProjectName, StepProjectDescription, StepProjectSelection,
                   StepRoleUser}
           /\ Blank(last'.msg))
          => /\ state'[last'.id].CurrentStep = state[last'.id].CurrentStep
             /\ Collected(state'[last'.id]) = Collected(state[last'.id])
             /\ last'.calls = NoCalls
      ]_vars

ErrorKinds ==
    {"validation_error", "not_found_error", "conflict_error", "rate_limit_error",
     "internal_error", "timeout_error"}

\* C29: of the six predicates at most one is true of an error; the one of
\* the outermost BotError of its chain is true and no other; none is true of
\* nil and of an error without a BotError, and the recovery of such an error
\* is cancel.
C29_OneKind ==
    last.op = "IsError"
        => LET err == last.args[1]
               kinds == { k \in ErrorKinds : last.result[k] }
           IN  /\ Cardinality(kinds) <= 1
               /\ \A t \in ErrorKinds : Classified(err, t) => kinds = {t}
               /\ Unclassified(err)
                    => kinds = {} /\ GetRecoveryForError(err).Strategy = "cancel"

\* An internal error that wraps a validation error is internal.
C29_Witness ==
    /\ last.op = "IsError"
    /\ last.args = << <<"internal_error", "validation_error">> >>
    /\ last.result["internal_error"]
    /\ ~last.result["validation_error"]

C28_ExponentialBackoff ==
    (last.op \in LoopOperations)
        => \A i \in 1..(Len(state.sleeps) - 1) :
               ( /\ Classified(state.sleeps[i].err, "rate_limit_error")
                 /\ Classified(state.sleeps[i + 1].err, "rate_limit_error") )
                   => state.sleeps[i + 1].delay > state.sleeps[i].delay

\* The conversation objects ever created for the id.
ObjectsFor(id) == { i \in 1..Len(state.heap) : state.heap[i].forId = id }

\* The goroutine has obtained the state of its conversation.
Obtained(p) ==
    /\ state.procs[p].op = "HandleMessage"
    /\ state.procs[p].pc \in {"gcs_locked", "handle", "calling", "sleeping"}

\* C23: when first messages for one new conversation id are handled
\* concurrently, one ConversationState is created and stored for the id, and
\* every handler obtains that object.
C23_LookupOrCreateAtomic ==
    /\ \A id \in ConcIds :
         /\ Cardinality(ObjectsFor(id)) <= 1
         /\ id \in DOMAIN state.map <=> ObjectsFor(id) # {}
         /\ id \in DOMAIN state.map => state.map[id] \in ObjectsFor(id)
    /\ \A p \in Procs :
         Obtained(p) => /\ state.procs[p].id \in DOMAIN state.map
                        /\ state.procs[p].ptr = state.map[state.procs[p].id]

\* Both goroutines found no state for the new id; the first created it and
\* the second found it when it looked again under the write lock.
C23_Witness ==
    /\ state.procs["g1"].id = "b" /\ state.procs["g2"].id = "b"
    /\ state.procs["g1"].pc = "handle"
    /\ state.procs["g2"].pc = "gcs_locked"
    /\ last.proc = "g2" /\ last.access = "read"
    /\ state.procs["g1"].ptr = state.procs["g2"].ptr
    /\ state.map["b"] = state.procs["g2"].ptr

\* The goroutine has read the state of the conversation and its handler has
\* not returned.
InHandler(p) == state.procs[p].pc \in {"calling", "sleeping"}

\* C24: two calls of HandleMessage for one conversation id never overlap in
\* the handler: the second reads the state after the first has returned.
C24_OneAtATime ==
    \A p, q \in Procs :
        p # q /\ InHandler(p) /\ InHandler(q)
           => state.procs[p].id # state.procs[q].id

\* The goroutine is in a call of a collaborator or in a sleep of a retry loop.
Waiting(p) == state.procs[p].pc \in {"calling", "sleeping", "start_calling"}

\* C25: a goroutine that is in an external call or in a retry sleep does not
\* hold the mutex of the map, so the mutex is free for the other goroutines.
C25_NoLockWhileWaiting ==
    \A p \in Procs :
        Waiting(p) => /\ ~Holds(state, p)
                      /\ state.writer \in {"none"} \cup (Procs \ {p})
                      /\ state.readers \subseteq Procs \ {p}

\* g1 sleeps in the retry loop of conversation a, and g2 has handled a
\* message for the new conversation b from its beginning to its end while g1
\* slept.
C25_Witness ==
    /\ state.procs["g1"].pc = "sleeping" /\ state.procs["g1"].id = "a"
    /\ last.op = "end HandleMessage" /\ last.proc = "g2" /\ last.id = "b"
    /\ last.overlap
    /\ "b" \in DOMAIN state.map

\* C26: every read and write of the map is made by a goroutine that holds
\* the mutex, the write lock for a write.
C26_MapAccessUnderMutex == last.access # "none" => last.locked

\* The results HandleMessage(id, m) has when the map holds nothing but the
\* conversation of the id.
ResultsAlone(map, id, m) ==
    LET own == [i \in DOMAIN map \cap {id} |-> map[i]]
    IN  UNION { HandleMessageResults(GetConversationState(own, id, t[1], t[2]), m)
                : t \in IF id \in DOMAIN map THEN {<<0, 0>>}
                        ELSE {t \in Times \X Times : t[1] <= t[2]} }

\* C31: HandleMessage(id1, m) leaves every other conversation of the map as
\* it was and adds or removes none, and what it answers and stores for id1
\* is what it would answer and store if id1 were the only conversation.
C31_Isolation ==
    [][ Handled =>
          LET id == last'.id
          IN  /\ DOMAIN state' = DOMAIN state \cup {id}
              /\ \A other \in DOMAIN state \ {id} : state'[other] = state[other]
              /\ \E r \in ResultsAlone(state, id, last'.msg) :
                    /\ state'[id] = r.st
                    /\ last'.resp = r.resp
                    /\ last'.err = r.err
                    /\ last'.calls = r.calls
      ]_vars

\* The first message of t1 has been handled while t2 waits at the
\* confirmation of a project creation.
C31_Witness ==
    /\ last.op = "HandleMessage" /\ last.id = "t1" /\ last.msg = mSlashCreate
    /\ DOMAIN state = {"t1", "t2"}
    /\ state["t1"].CurrentStep = StepProjectName
    /\ state["t2"].CurrentStep = StepConfirmCreation
    /\ state["t2"].ProjectName = mP1

\* The error is retried: a rate-limit or a timeout error.
Retried(err) == Classified(err, "rate_limit_error") \/ Classified(err, "timeout_error")

\* Every error the loop has seen so far is of type t.
Persistent(t) ==
    /\ Classified(last.err, t)
    /\ \A i \in 1..Len(state.sleeps) : Classified(state.sleeps[i].err, t)

\* C32: a retry loop calls the collaborator at most 4 times and is over after
\* the fourth call; it has made one call more than it has slept when it is
\* over; it never sleeps when its first error is not a retried one, so that
\* error ends it after one call; it is over after exactly 4 calls when every
\* call fails with a rate-limit error and after exactly 3 when every call
\* fails with a timeout error; the attempts counter counts the sleeps of
\* this loop from 0.
C32_BoundedRetry ==
    /\ last.calls <= 4
    /\ state.attempts = Len(state.sleeps)
    /\ state.phase = "loop" => last.calls = state.attempts /\ last.calls < 4
    /\ state.phase # "loop" => last.calls = state.attempts + 1
    /\ state.sleeps # <<>> => Retried(state.sleeps[1].err)
    /\ (last.calls = 1 /\ last.err # NilErr /\ ~Retried(last.err))
          => state.phase = "failed"
    /\ Persistent("rate_limit_error") => (state.phase = "failed" <=> last.calls = 4)
    /\ Persistent("timeout_error") => (state.phase = "failed" <=> last.calls = 3)

\* The AssignRoles loop has failed for good at its fourth call, after three
\* sleeps for rate-limit errors.
C32_Witness ==
    /\ state.op = "AssignRoles"
    /\ state.phase = "failed"
    /\ last.calls = 4
    /\ Persistent("rate_limit_error")
    /\ Len(state.sleeps) = 3

\* The declared edges between the steps.
Edges ==
    { <<StepIdle, StepProjectName>>, <<StepIdle, StepProjectDescription>>,
      <<StepIdle, StepProjectSelection>>, <<StepIdle, StepRoleUser>>,
      <<StepIdle, StepRoleType>>,
      <<StepProjectName, StepProjectDescription>>,
      <<StepProjectDescription, StepConfirmCreation>>,
      <<StepConfirmCreation, StepIdle>>,
      <<StepProjectSelection, StepRoleUser>>,
      <<StepRoleUser, StepRoleType>>,
      <<StepRoleType, StepConfirmRole>>,
      <<StepConfirmRole, StepIdle>> }

\* C33: HandleMessage changes the step only along a declared edge; a flow
\* is entered from Idle by a command only; a flow returns to Idle only from
\* its confirmation, by an answer no (no collaborator call) or by an answer
\* followed by a successful CreateProject (from the creation flow) or
\* AssignRoles (from the role flow).
C33_DeclaredEdges ==
    [][ Handled =>
          LET id == last'.id
              old == StepOf(state, id)
              new == state'[id].CurrentStep
          IN  /\ old # new => <<old, new>> \in Edges
              /\ (old = StepIdle /\ new # StepIdle) => last'.route = "command"
              /\ (old # StepIdle /\ new = StepIdle)
                    => /\ old \in ConfirmSteps
                       /\ \/ /\ ToLower(TrimSpace(last'.msg)) \in {sN, sNo}
                             /\ last'.calls = NoCalls
                          \/ /\ ToLower(TrimSpace(last'.msg)) \notin {sN, sNo}
                             /\ last'.calls.ok
                             /\ last'.calls.op = IF old = StepConfirmCreation
                                                 THEN "CreateProject"
                                                 ELSE "AssignRoles"
      ]_vars

\* The creation flow has returned to Idle from its confirmation by an
\* answer N.
C33_Witness ==
    /\ last.op = "HandleMessage"
    /\ last.msg = mNCap
    /\ last.calls = NoCalls
    /\ last.resp = Text(<<"Project creation cancelled.">>)
    /\ state[last.id].CurrentStep = StepIdle

\* The conversation of the id is in a flow.
InFlow(id) == id \in DOMAIN state /\ state[id].CurrentStep # StepIdle

\* C34: a conversation that has left Idle returns to Idle, when the answers
\* that are accepted are not put off for ever.
C34_EveryFlowFinishes ==
    \A id \in ConvIds :
        InFlow(id) ~> (id \in DOMAIN state /\ state[id].CurrentStep = StepIdle)

\* A role flow for the project u1 has come back to Idle by a successful
\* assignment.
C34_Witness ==
    /\ last.op = "HandleMessage"
    /\ last.route = "prompt"
    /\ last.calls.op = "AssignRoles"
    /\ last.calls.ok
    /\ last.calls.args[1] = mU1
    /\ state[last.id].CurrentStep = StepIdle

\* C35: when a role assignment is confirmed for a role type that is one of
\* the options, AssignRoles is called with that role type, and no other, for
\* the user.
C35_SelectedRoleAssigned ==
    [][ ( /\ Handled
          /\ StepOf(state, last'.id) = StepConfirmRole
          /\ last'.calls.op = "AssignRoles"
          /\ state[last'.id].RoleType \in {sAdmin, sMember, sViewer} )
          => last'.calls.args[2] =
                 { <<state[last'.id].RoleUser, <<state[last'.id].RoleType>>>> }
      ]_vars

\* C36: CreateProject is called with the project name the conversation
\* holds, and a name enters the creation flow only in a call of
\* HandleMessage in which ValidateProjectName reported it available.
C36_CreateOnlyValidatedName ==
    [][ Handled =>
          LET id == last'.id
              old == IF id \in DOMAIN state THEN state[id].ProjectName ELSE Empty
              new == state'[id]
          IN  /\ last'.calls.op = "CreateProject"
                    => last'.calls.args[1] = old
              /\ (new.CurrentStep \in CreationSteps /\ new.ProjectName # old)
                    => /\ last'.calls.op = "ValidateProjectName"
                       /\ last'.calls.args = <<new.ProjectName>>
                       /\ last'.calls.ok /\ last'.calls.val
      ]_vars

\* C37: AssignRoles is called for the user the conversation holds, and a
\* user enters the role flow only in a call of HandleMessage in which
\* ValidateUser reported that the user exists.
C37_AssignOnlyValidatedUser ==
    [][ Handled =>
          LET id == last'.id
              old == IF id \in DOMAIN state THEN state[id].RoleUser ELSE Empty
              new == state'[id]
          IN  /\ last'.calls.op = "AssignRoles"
                    => { a[1] : a \in last'.calls.args[2] } = {old}
              /\ (new.CurrentStep \in RoleSteps /\ new.RoleUser # old)
                    => /\ last'.calls.op = "ValidateUser"
                       /\ last'.calls.args = <<new.RoleUser>>
                       /\ last'.calls.ok /\ last'.calls.val
      ]_vars

\* The response HandleMessage gives when handlePromptResponse failed with
\* the error.
InvalidResponse(err) == Text(<<"Invalid response: %v. Please try again.", err>>)

\* C38: in every conversation the pending prompt is a Confirmation exactly
\* when the step is confirm_creation or confirm_role and a Prompt at every
\* other step that is not Idle, and no call of HandleMessage ends with the
\* error of the type check of a confirmation or of the unknown step.
C38_PromptVariantMatchesStep ==
    /\ \A id \in DOMAIN state :
         LET st == state[id]
         IN  /\ st.CurrentStep \in ConfirmSteps
                  => st.PendingPrompt.type = "Confirmation"
             /\ st.CurrentStep \in (CreationSteps \cup RoleSteps) \ ConfirmSteps
                  => st.PendingPrompt.type = "Prompt"
             /\ st.PendingPrompt # NilPrompt
                  => st.CurrentStep \in CreationSteps \cup RoleSteps
    /\ last.err \notin { <<"invalid prompt type: expected Confirmation">>,
                         <<"unknown step: %s">> }
    /\ last.resp \notin { InvalidResponse(<<"invalid prompt type: expected Confirmation">>),
                          InvalidResponse(<<"unknown step: %s">>) }

\* The confirmation of a role assignment has passed its type check and
\* rejected the answer member; it is still pending.
C38_Witness ==
    /\ last.op = "HandleMessage"
    /\ last.msg = mMember
    /\ last.route = "prompt"
    /\ last.resp # ConfirmationFormat(state[last.id].PendingPrompt)
    /\ state[last.id].CurrentStep = StepConfirmRole
    /\ state[last.id].PendingPrompt.type = "Confirmation"
    /\ state[last.id].RoleType = mMember

\* C39: the confirmations of both flows default to yes, and HandleMessage
\* with a message that is empty or white space at confirm_creation or
\* confirm_role calls CreateProject or AssignRoles and ends in one of the
\* ways HandleMessage with yes ends in the same state.
C39_BlankConfirms ==
    [][ ( /\ Handled
          /\ StepOf(state, last'.id) \in ConfirmSteps
          /\ TrimSpace(last'.msg) = Empty )
          => LET id == last'.id
             IN  /\ state[id].PendingPrompt.DefaultYes
                 /\ last'.calls.op = IF state[id].CurrentStep = StepConfirmCreation
                                     THEN "CreateProject" ELSE "AssignRoles"
                 /\ \E r \in HandleMessageBody(state[id], mYes) :
                       /\ state'[id] = r.st
                       /\ last'.resp = r.resp
                       /\ last'.err = r.err
                       /\ last'.calls = r.calls
      ]_vars

\* The empty message has confirmed the creation of project p1.
C39_Witness ==
    /\ last.op = "HandleMessage"
    /\ last.msg = Empty
    /\ last.calls.op = "CreateProject"
    /\ last.calls.args[1] = mP1
    /\ last.calls.ok
    /\ last.resp = Text(<<"Project created successfully!">>)

\* C40: Start returns: after quit or exit, after the context is cancelled,
\* or after standard input has reached its end.
C40_StartTerminates == <>(state.pc = "returned")
====
